---------------------------- MODULE Spec2Model ----------------------------
(***************************************************************************)
(* A model of oltl (ol-type-library): the model base types of             *)
(* src/oltl/core.py (BaseModel, BaseEntity, BaseCreationTimeAwareModel,    *)
(* BaseUpdateTimeAwareModel) with their field assignment, construction    *)
(* and JSON encode / decode, and the string value types with their        *)
(* transform chain (_proc_str) and structural check.                       *)
(*                                                                         *)
(* Text is a sequence of characters; a character is a one-symbol string   *)
(* ("a", "A", "_", " ") or a named code point outside ASCII ("fw_a" is    *)
(* FULLWIDTH LATIN SMALL LETTER A, "fw_space" is U+3000).                  *)
(***************************************************************************)
EXTENDS Integers, Sequences, FiniteSets, TLC

VARIABLES
    now,        \* the reading Timestamp.now() returns at this moment
    m,          \* the model instance under test (NoModel before construction)
    err,        \* outcome of the last operation on m
    last,       \* the last operation, with its arguments and the instance before it
    wire,       \* the JSON object produced by the last model_dump_json
    decoded,    \* the instance produced by the last model_validate_json
    born,       \* the values the frozen fields of m had after construction
    stamp,      \* the instant m was last touched (see Touched), PyNone if untracked
    strCls,     \* string types: the class being validated (its mixin list)
    strRaw,     \* string types: the input handed to the validator
    strVal,     \* string types: the value at the current pipeline stage
    strPc,      \* string types: position in the validation pipeline
    strErr,     \* string types: kind of the validation failure, or "none"
    strDef,     \* string types: the methods the class under validation overrides
    valType,    \* other value types: the type under validation
    valIn,      \* other value types: the input handed to the validating path
    valOut,     \* other value types: the outcome of validating valIn
    valWire,    \* other value types: what serialize made of the validated value
    valBack,    \* other value types: the outcome of validating valWire
    valPc,      \* other value types: position in validate, serialize, validate
    json_schema,    \* schema to model: the caller's document, as it is now
    resolved_refs,  \* schema to model: the model types made of $defs entries
    schGiven,   \* schema to model: the document as the caller passed it
    schOf,      \* schema to model: the model type the document is the schema of
    schPasses,  \* schema to model: entries resolved by each finished pass
    schOut,     \* schema to model: the model type returned or the error raised
    schFirst,   \* schema to model: the outcome of the first call, during a second
    schPc,      \* schema to model: position in json_schema_to_model
    environ,        \* settings: os.environ, without the class's env_prefix
    model_config,   \* settings: the settings class's model_config
    setOut,     \* settings: what the last load returned or raised
    setLast,    \* settings: the last load, with the state it was called in
    jpRaw,      \* text: the string handed to normalize_jptext
    jpText      \* text: the results of the successive normalize_jptext calls

vars == <<now, m, err, last, wire, decoded, born, stamp, strCls, strRaw, strVal, strPc, strErr, strDef,
          valType, valIn, valOut, valWire, valBack, valPc,
          json_schema, resolved_refs, schGiven, schOf, schPasses, schOut, schFirst, schPc,
          environ, model_config, setOut, setLast, jpRaw, jpText>>

modelVars == <<now, m, err, last, wire, decoded, born, stamp>>
stringVars == <<strCls, strRaw, strVal, strPc, strErr, strDef>>
scalarVars == <<valType, valIn, valOut, valWire, valBack, valPc>>
schemaVars == <<json_schema, resolved_refs, schGiven, schOf, schPasses, schOut, schFirst, schPc>>
settingsVars == <<environ, model_config, setOut, setLast>>
textVars == <<jpRaw, jpText>>

-----------------------------------------------------------------------------
(* Bounds of the model *)

\* the clock runs over 0 .. MaxClock
MaxClock == 2

\* identifiers are the values 0 .. MaxId
MaxId == 1

\* inputs of the string validator are texts of at most MaxLen characters
MaxLen == 2

\* byte strings have at most MaxBytes bytes
MaxBytes == 3

\* integers, and the bounds of bounded number types, are the values 0 .. MaxInt
MaxInt == 3

\* a schema document declares at most MaxDefs entries in its $defs
MaxDefs == 2

-----------------------------------------------------------------------------
(* Characters *)

Lowers == <<"a","b","c","d","e","f","g","h","i","j","k","l","m",
            "n","o","p","q","r","s","t","u","v","w","x","y","z">>

Uppers == <<"A","B","C","D","E","F","G","H","I","J","K","L","M",
            "N","O","P","Q","R","S","T","U","V","W","X","Y","Z">>

\* FULLWIDTH LATIN SMALL LETTER A .. Z (U+FF41 ..)
WideLowers == <<"fw_a","fw_b","fw_c","fw_d","fw_e","fw_f","fw_g","fw_h","fw_i",
                "fw_j","fw_k","fw_l","fw_m","fw_n","fw_o","fw_p","fw_q","fw_r",
                "fw_s","fw_t","fw_u","fw_v","fw_w","fw_x","fw_y","fw_z">>

\* FULLWIDTH LATIN CAPITAL LETTER A .. Z (U+FF21 ..)
WideUppers == <<"fw_A","fw_B","fw_C","fw_D","fw_E","fw_F","fw_G","fw_H","fw_I",
                "fw_J","fw_K","fw_L","fw_M","fw_N","fw_O","fw_P","fw_Q","fw_R",
                "fw_S","fw_T","fw_U","fw_V","fw_W","fw_X","fw_Y","fw_Z">>

Digits == <<"0","1","2","3","4","5","6","7","8","9">>

Range(f) == {f[i] : i \in DOMAIN f}

IndexOf(c, table) == CHOOSE i \in DOMAIN table : table[i] = c

IsLower(c) == c \in Range(Lowers)
IsUpper(c) == c \in Range(Uppers)
IsDigit(c) == c \in Range(Digits)
IsAlnum(c) == IsLower(c) \/ IsUpper(c) \/ IsDigit(c)

\* str.lower() on one character: ASCII and full-width capitals have a lower case
LowerChar(c) ==
    IF c \in Range(Uppers) THEN Lowers[IndexOf(c, Uppers)]
    ELSE IF c \in Range(WideUppers) THEN WideLowers[IndexOf(c, WideUppers)]
    ELSE c

\* str.upper() on one character
UpperChar(c) ==
    IF c \in Range(Lowers) THEN Uppers[IndexOf(c, Lowers)]
    ELSE IF c \in Range(WideLowers) THEN WideUppers[IndexOf(c, WideLowers)]
    ELSE c

\* a cased character, as str.title() sees it
IsCased(c) ==
    c \in Range(Lowers) \cup Range(Uppers) \cup Range(WideLowers) \cup Range(WideUppers)

\* str.lower()
Lower(s) == [i \in DOMAIN s |-> LowerChar(s[i])]

-----------------------------------------------------------------------------
(* pydantic.alias_generators: to_snake, to_camel *)

\* ([A-Z]+)([A-Z][a-z]): the last capital of a run of capitals that a small
\* letter follows
UpperUpperLower(c1, c2, c3) == IsUpper(c1) /\ IsUpper(c2) /\ IsLower(c3)
\* ([a-z])([A-Z])
LowerUpper(c1, c2, c3) == IsLower(c1) /\ IsUpper(c2)
\* ([0-9])([A-Z])
DigitUpper(c1, c2, c3) == IsDigit(c1) /\ IsUpper(c2)
\* ([a-z])([0-9])
LowerDigit(c1, c2, c3) == IsLower(c1) /\ IsDigit(c2)

\* whether the named pattern of to_snake matches at c1 c2, c3 following
Between(pattern, c1, c2, c3) ==
    CASE pattern = "UpperUpperLower" -> UpperUpperLower(c1, c2, c3)
      [] pattern = "LowerUpper" -> LowerUpper(c1, c2, c3)
      [] pattern = "DigitUpper" -> DigitUpper(c1, c2, c3)
      [] pattern = "LowerDigit" -> LowerDigit(c1, c2, c3)

\* re.sub of a pattern that matches two adjacent characters c1 c2 (c3 the
\* character after them, "" at the end), putting "_" between them; a match
\* consumes both characters.
RECURSIVE SubUnderscore(_, _, _)
SubUnderscore(pattern, s, i) ==
    IF i > Len(s) THEN <<>>
    ELSE IF i < Len(s)
            /\ Between(pattern, s[i], s[i+1], IF i + 2 <= Len(s) THEN s[i+2] ELSE "")
         THEN <<s[i], "_", s[i+1]>> \o SubUnderscore(pattern, s, i + 2)
         ELSE <<s[i]>> \o SubUnderscore(pattern, s, i + 1)

HyphenChar(c) == IF c = "-" THEN "_" ELSE c

to_snake(camel) ==
    LET s1 == SubUnderscore("UpperUpperLower", camel, 1)
        s2 == SubUnderscore("LowerUpper", s1, 1)
        s3 == SubUnderscore("DigitUpper", s2, 1)
        s4 == SubUnderscore("LowerDigit", s3, 1)
        s5 == [i \in DOMAIN s4 |-> HyphenChar(s4[i])]
    IN  Lower(s5)

\* str.title(): a cased character is upper-cased after an uncased one (or at
\* the start) and lower-cased after a cased one
Title(s) ==
    [i \in DOMAIN s |->
        IF i = 1 \/ ~IsCased(s[i-1]) THEN UpperChar(s[i]) ELSE LowerChar(s[i])]

\* re.sub('([0-9A-Za-z])_(?=[0-9A-Z])', group 1): drop a "_" that stands
\* between an alphanumeric and a digit or capital
RECURSIVE DropJoiner(_, _)
DropJoiner(s, i) ==
    IF i > Len(s) THEN <<>>
    ELSE IF /\ i + 2 <= Len(s)
            /\ IsAlnum(s[i]) /\ s[i+1] = "_"
            /\ (IsDigit(s[i+2]) \/ IsUpper(s[i+2]))
         THEN <<s[i]>> \o DropJoiner(s, i + 2)
         ELSE <<s[i]>> \o DropJoiner(s, i + 1)

to_pascal(snake) == DropJoiner(Title(snake), 1)

\* re.match('^[a-z]+[A-Za-z0-9]*$') and no '\d[a-z]'; "$" also matches before
\* a newline that ends the text
AlreadyCamel(s) ==
    LET n == IF Len(s) >= 1 /\ s[Len(s)] = "nl" THEN Len(s) - 1 ELSE Len(s)
    IN  /\ n >= 1
        /\ IsLower(s[1])
        /\ \A i \in 1..n : IsAlnum(s[i])
        /\ ~\E i \in 1..(Len(s) - 1) : IsDigit(s[i]) /\ IsLower(s[i+1])

\* re.sub('(^_*[A-Z])', lower): the first capital, when only "_" precede it
LowerFirst(s) ==
    [i \in DOMAIN s |->
        IF IsUpper(s[i]) /\ \A j \in 1..(i-1) : s[j] = "_"
        THEN LowerChar(s[i]) ELSE s[i]]

to_camel(snake) ==
    IF AlreadyCamel(snake) THEN snake ELSE LowerFirst(to_pascal(snake))

-----------------------------------------------------------------------------
(* utils.normalize_jptext *)

\* unicodedata.normalize("NFKC", c) of the code points of this model:
\* full-width letters and the ideographic space have ASCII compatibility
\* forms, the superscript and subscript minus map to MINUS SIGN, the
\* non-breaking hyphen to HYPHEN
Nfkc(c) ==
    IF c \in Range(WideLowers) THEN Lowers[IndexOf(c, WideLowers)]
    ELSE IF c \in Range(WideUppers) THEN Uppers[IndexOf(c, WideUppers)]
    ELSE IF c = "fw_space" THEN " "
    ELSE IF c = "fw_lparen" THEN "("
    ELSE IF c = "fw_rparen" THEN ")"
    ELSE IF c \in {"superscript_minus", "subscript_minus"} THEN "minus_sign"
    ELSE IF c = "nb_hyphen" THEN "hyphen"
    ELSE c

\* str.translate(normalize_trans_map)
Translate(c) ==
    IF c \in {"modifier_minus", "armenian_hyphen", "hyphen", "nb_hyphen",
              "figure_dash", "en_dash", "hyphen_bullet", "superscript_minus",
              "subscript_minus", "minus_sign"} THEN "-"
    ELSE IF c \in {"fw_space", "zwsp", "bom", "tab"} THEN " "
    ELSE IF c \in {"left_dquote", "right_dquote"} THEN "dquote"
    ELSE IF c \in {"left_squote", "right_squote"} THEN "squote"
    ELSE c

\* \s of a str pattern, and the White_Space characters str.trim() removes
IsSpace(c) == c \in {" ", "tab", "nl", "cr", "fw_space"}

\* parentheses_left.sub(r"\1 (", s): ([^\s(])\(
RECURSIVE ParenthesesLeft(_, _)
ParenthesesLeft(s, i) ==
    IF i > Len(s) THEN <<>>
    ELSE IF i < Len(s) /\ ~IsSpace(s[i]) /\ s[i] # "(" /\ s[i+1] = "("
         THEN <<s[i], " ", "(">> \o ParenthesesLeft(s, i + 2)
         ELSE <<s[i]>> \o ParenthesesLeft(s, i + 1)

\* the right pattern without \s in its class: \)([^)])
RECURSIVE ParenthesesRightBeforeSpace(_, _)
ParenthesesRightBeforeSpace(s, i) ==
    IF i > Len(s) THEN <<>>
    ELSE IF i < Len(s) /\ s[i] = ")" /\ s[i+1] # ")"
         THEN <<")", " ", s[i+1]>> \o ParenthesesRightBeforeSpace(s, i + 2)
         ELSE <<s[i]>> \o ParenthesesRightBeforeSpace(s, i + 1)

\* parentheses_right.sub(r") \1", s): \)([^\s)])
RECURSIVE ParenthesesRight(_, _)
ParenthesesRight(s, i) ==
    IF i > Len(s) THEN <<>>
    ELSE IF i < Len(s) /\ s[i] = ")" /\ ~IsSpace(s[i+1]) /\ s[i+1] # ")"
         THEN <<")", " ", s[i+1]>> \o ParenthesesRight(s, i + 2)
         ELSE <<s[i]>> \o ParenthesesRight(s, i + 1)

NfkcChar(c) == Translate(Nfkc(c))

\* unicodedata.normalize("NFKC", x).translate(normalize_trans_map)
NfkcTranslate(x) == [i \in DOMAIN x |-> NfkcChar(x[i])]

\* normalize_jptext without the substitution of parentheses_right
normalize_jptext_left_only(x) == ParenthesesLeft(NfkcTranslate(x), 1)

normalize_jptext(x) ==
    ParenthesesRight(ParenthesesLeft(NfkcTranslate(x), 1), 1)

-----------------------------------------------------------------------------
(* Python values handed to a validator, and the values a field stores *)

PyStr(s) == [py |-> "str", s |-> s]
PyInt(i) == [py |-> "int", i |-> i]
PyNone == [py |-> "None"]
\* a float that is a whole number of halves: h / 2
PyFloat(h) == [py |-> "float", h |-> h]
\* a Timestamp: an int of microseconds
Ts(t) == [py |-> "Timestamp", t |-> t]
\* an identifier: an instance of class cls ("Id", or the entity's "MyId")
\* holding the ULID value u
IdOf(cls, u) == [py |-> "Id", cls |-> cls, u |-> u]

Ok(v) == [ok |-> TRUE, v |-> v]
Fail(kind) == [ok |-> FALSE, e |-> kind]

foo == <<"f","o","o">>
bar == <<"b","a","r">>

-----------------------------------------------------------------------------
(* base64: standard_b64encode, standard_b64decode *)

PyBytes(b) == [py |-> "bytes", b |-> b]

Base64Alphabet ==
    <<"A","B","C","D","E","F","G","H","I","J","K","L","M","N","O","P",
      "Q","R","S","T","U","V","W","X","Y","Z","a","b","c","d","e","f",
      "g","h","i","j","k","l","m","n","o","p","q","r","s","t","u","v",
      "w","x","y","z","0","1","2","3","4","5","6","7","8","9","+","/">>

B64Char(n) == Base64Alphabet[n + 1]
B64Index(c) == IndexOf(c, Base64Alphabet) - 1

\* an encoder that leaves out the "=" padding of the last group
RECURSIVE standard_b64encode_unpadded(_)
standard_b64encode_unpadded(b) ==
    IF Len(b) = 0 THEN <<>>
    ELSE IF Len(b) = 1
         THEN <<B64Char(b[1] \div 4), B64Char((b[1] % 4) * 16)>>
    ELSE IF Len(b) = 2
         THEN <<B64Char(b[1] \div 4), B64Char((b[1] % 4) * 16 + b[2] \div 16),
                B64Char((b[2] % 16) * 4)>>
    ELSE <<B64Char(b[1] \div 4), B64Char((b[1] % 4) * 16 + b[2] \div 16),
           B64Char((b[2] % 16) * 4 + b[3] \div 64), B64Char(b[3] % 64)>>
         \o standard_b64encode_unpadded(SubSeq(b, 4, Len(b)))

\* standard_b64encode(b).decode(): three bytes make four characters, a last
\* group of one or two bytes is padded with "="
RECURSIVE standard_b64encode(_)
standard_b64encode(b) ==
    IF Len(b) = 0 THEN <<>>
    ELSE IF Len(b) = 1
         THEN <<B64Char(b[1] \div 4), B64Char((b[1] % 4) * 16), "=", "=">>
    ELSE IF Len(b) = 2
         THEN <<B64Char(b[1] \div 4), B64Char((b[1] % 4) * 16 + b[2] \div 16),
                B64Char((b[2] % 16) * 4), "=">>
    ELSE <<B64Char(b[1] \div 4), B64Char((b[1] % 4) * 16 + b[2] \div 16),
           B64Char((b[2] % 16) * 4 + b[3] \div 64), B64Char(b[3] % 64)>>
         \o standard_b64encode(SubSeq(b, 4, Len(b)))

\* the bytes of the groups of four characters of a text, the bits beyond the
\* last whole byte of a padded group dropped
RECURSIVE DecodeQuads(_)
DecodeQuads(t) ==
    IF Len(t) = 0 THEN <<>>
    ELSE LET i1 == B64Index(t[1])
             i2 == B64Index(t[2])
         IN  IF t[3] = "=" THEN <<i1 * 4 + i2 \div 16>>
             ELSE LET i3 == B64Index(t[3])
                  IN  IF t[4] = "="
                      THEN <<i1 * 4 + i2 \div 16, (i2 % 16) * 16 + i3 \div 4>>
                      ELSE <<i1 * 4 + i2 \div 16, (i2 % 16) * 16 + i3 \div 4,
                             (i3 % 4) * 64 + B64Index(t[4])>>
                           \o DecodeQuads(SubSeq(t, 5, Len(t)))

\* standard_b64decode(text) of a text of alphabet characters and trailing
\* "=": a text that is not made of whole groups raises binascii.Error
standard_b64decode(t) ==
    IF Len(t) % 4 # 0 THEN Fail("value_error") ELSE Ok(DecodeQuads(t))

-----------------------------------------------------------------------------
(* Id: a ULID and its 26-character Crockford base32 text *)

IdTextLen == 26

Crockford == <<"0","1","2","3","4","5","6","7","8","9","A","B","C","D","E","F",
               "G","H","J","K","M","N","P","Q","R","S","T","V","W","X","Y","Z">>

\* u shifted right by k base-32 digits
RECURSIVE ShiftDigits(_, _)
ShiftDigits(u, k) == IF k = 0 THEN u ELSE ShiftDigits(u \div Len(Crockford), k - 1)

\* ULID.__str__ (base32.encode_ulid): the value in base 32, most significant
\* digit first
encode_ulid(u) ==
    [i \in 1..IdTextLen |-> Crockford[(ShiftDigits(u, IdTextLen - i) % Len(Crockford)) + 1]]

\* base32.decode_ulid: the digits read most significant first
RECURSIVE DecodeFrom(_, _, _)
DecodeFrom(text, i, acc) ==
    IF i > Len(text) THEN acc
    ELSE DecodeFrom(text, i + 1, acc * Len(Crockford) + (IndexOf(text[i], Crockford) - 1))

decode_ulid(text) == DecodeFrom(text, 1, 0)

\* Id.__init__(value) for a str, ULID or Id; cls is the class constructed
IdInit(cls, value) ==
    IF value.py = "Id" THEN Ok(IdOf(cls, value.u))
    ELSE IF Len(value.s) # IdTextLen THEN Fail("value_error")
    ELSE IF \E i \in DOMAIN value.s : value.s[i] \notin Range(Crockford)
         THEN Fail("value_error")
    ELSE Ok(IdOf(cls, decode_ulid(value.s)))

\* a validate that returns an instance of any Id class as it is
\* (isinstance(value, Id) in place of isinstance(value, cls))
IdValidateAnyId(cls, value) ==
    IF value.py = "Id" THEN Ok(value)
    ELSE IF value.py = "str" THEN IdInit(cls, value)
    ELSE Fail("value_error")

\* Id.validate
IdValidate(cls, value) ==
    IF value.py = "Id" /\ value.cls = cls THEN Ok(value)
    ELSE IF value.py \in {"Id", "str"} THEN IdInit(cls, value)
    ELSE Fail("value_error")

\* Id.generate with ulid.new() returning the value u
IdGenerate(cls, u) == IdInit(cls, IdOf("ULID", u)).v

\* Id.serialize
IdSerialize(id) == encode_ulid(id.u)

-----------------------------------------------------------------------------
(* Timestamp *)

\* Timestamp.__new__: an int is kept; text goes to the date-time parser,
\* which rejects every text of this model
TimestampNew(value) ==
    IF value.py = "str" THEN Fail("value_error") ELSE Ok(Ts(value.i))

\* Timestamp.validate
TimestampValidate(v) ==
    IF v.py = "Timestamp" THEN Ok(v)
    ELSE IF v.py \in {"int", "str"} THEN TimestampNew(v)
    ELSE Fail("value_error")

\* Timestamp.now, the clock reading t
TimestampNow(t) == Ts(t)

\* a serialize that emits milliseconds
TimestampSerializeMillis(ts) == ts.t \div 1000

\* Timestamp.serialize
TimestampSerialize(ts) == ts.t

-----------------------------------------------------------------------------
(* The model classes: a plain BaseModel, a BaseEntity[MyId], a             *)
(* BaseCreationTimeAwareModel and a BaseUpdateTimeAwareModel, each with    *)
(* the user fields the tests declare.                                      *)

id == <<"i","d">>
created_at == <<"c","r","e","a","t","e","d","_","a","t">>
updated_at == <<"u","p","d","a","t","e","d","_","a","t">>
object_name == <<"o","b","j","e","c","t","_","n","a","m","e">>
some_value == <<"s","o","m","e","_","v","a","l","u","e">>

Kinds == {"model", "entity", "creation", "update"}

\* the fields of a class, in declaration order (base class first)
Fields(kind) ==
    CASE kind = "model" -> <<object_name>>
      [] kind = "entity" -> <<id, object_name>>
      [] kind = "creation" -> <<created_at, object_name, some_value>>
      [] kind = "update" -> <<created_at, updated_at, object_name, some_value>>

FieldSet(kind) == Range(Fields(kind))

FieldType(f) ==
    CASE f = id -> "Id"
      [] f \in {created_at, updated_at} -> "Timestamp"
      [] f = object_name -> "str"
      [] f = some_value -> "int"

\* Field(frozen=True)
Frozen(f) == f \in {id, created_at}

\* Field(default_factory=...)
HasDefault(f) == f \in {id, created_at, updated_at}

\* model_config: alias_generator=to_camel, applied once per field when the
\* class is built
AliasTable == [f \in {id, created_at, updated_at, object_name, some_value} |-> to_camel(f)]

Alias(f) == AliasTable[f]

NoModel == [kind |-> "none"]

\* the validator of a field's annotation
ValidateField(f, value) ==
    CASE FieldType(f) = "Id" -> IdValidate("MyId", value)
      [] FieldType(f) = "Timestamp" -> TimestampValidate(value)
      [] FieldType(f) = "str" ->
            IF value.py = "str" THEN Ok(value) ELSE Fail("string_type")
      [] FieldType(f) = "int" ->
            IF value.py = "int" THEN Ok(value) ELSE Fail("int_parsing")

\* defaults evaluated once, when the class is defined (default=Timestamp.now()
\* in place of default_factory=Timestamp.now)
DefaultAtClassDefinition(f, gen, t1, t2) ==
    CASE f = id -> IdGenerate("Id", gen)
      [] f = created_at -> TimestampNow(0)
      [] f = updated_at -> TimestampNow(0)

\* the default_factory of a field: gen is the value ulid.new() returns, t1 and
\* t2 the clock readings of the two Timestamp.now calls
DefaultFactory(f, gen, t1, t2) ==
    CASE f = id -> IdGenerate("Id", gen)
      [] f = created_at -> TimestampNow(t1)
      [] f = updated_at -> TimestampNow(t2)

\* populate_by_name left off: a field is read under its alias only
SuppliedByAliasOnly(f, data) == Alias(f) \in DOMAIN data

\* populate_by_name=True: a field is read under its alias, else under its name
Supplied(f, data) == Alias(f) \in DOMAIN data \/ f \in DOMAIN data

Lookup(f, data) == IF Alias(f) \in DOMAIN data THEN data[Alias(f)] ELSE data[f]

\* one field of a construction: the supplied value, else the default
\* (validate_default=True), else a missing-field error
FieldOnInit(f, data, gen, t1, t2) ==
    IF Supplied(f, data) THEN ValidateField(f, Lookup(f, data))
    ELSE IF HasDefault(f) THEN ValidateField(f, DefaultFactory(f, gen, t1, t2))
    ELSE Fail("missing")

\* BaseModel.__init__ / model_validate on the mapping data
ModelValidate(kind, data, gen, t1, t2) ==
    LET res == [f \in FieldSet(kind) |-> FieldOnInit(f, data, gen, t1, t2)]
    IN  IF \A f \in FieldSet(kind) : res[f].ok
        THEN [ok |-> TRUE, m |-> [kind |-> kind, d |-> [f \in FieldSet(kind) |-> res[f].v]]]
        ELSE [ok |-> FALSE, m |-> NoModel]

\* a __setattr__ that does not look at Field(frozen=True)
SetattrIgnoringFrozen(self, name, value) ==
    IF name \notin FieldSet(self.kind)
    THEN [ok |-> FALSE, m |-> self, e |-> "no_field"]
    ELSE LET r == ValidateField(name, value)
         IN  IF r.ok
             THEN [ok |-> TRUE, m |-> [self EXCEPT !.d[name] = r.v], e |-> "none"]
             ELSE [ok |-> FALSE, m |-> self, e |-> r.e]

\* pydantic's BaseModel.__setattr__ under validate_assignment=True
PydanticSetattr(self, name, value) ==
    IF name \notin FieldSet(self.kind)
    THEN [ok |-> FALSE, m |-> self, e |-> "no_field"]
    ELSE IF Frozen(name)
    THEN [ok |-> FALSE, m |-> self, e |-> "frozen_field"]
    ELSE LET r == ValidateField(name, value)
         IN  IF r.ok
             THEN [ok |-> TRUE, m |-> [self EXCEPT !.d[name] = r.v], e |-> "none"]
             ELSE [ok |-> FALSE, m |-> self, e |-> r.e]

\* a __setattr__ that never stamps updated_at
SetattrWithoutStamp(self, name, value, t) == PydanticSetattr(self, name, value)

\* a __setattr__ that stamps updated_at in a finally clause, also when the
\* assignment raised
SetattrStampingOnFailure(self, name, value, t) ==
    IF name = updated_at THEN PydanticSetattr(self, name, value)
    ELSE LET r == PydanticSetattr(self, name, value)
             stamped == PydanticSetattr(r.m, updated_at, TimestampNow(t))
         IN  [ok |-> r.ok, m |-> stamped.m, e |-> r.e]

\* a __setattr__ without the early return for updated_at
SetattrStampingAlways(self, name, value, t) ==
    LET r == PydanticSetattr(self, name, value)
    IN  IF ~r.ok THEN r
        ELSE PydanticSetattr(r.m, updated_at, TimestampNow(t))

\* BaseUpdateTimeAwareModel.__setattr__, t the clock reading of Timestamp.now
UpdateTimeAwareSetattr(self, name, value, t) ==
    IF name = updated_at THEN PydanticSetattr(self, name, value)
    ELSE LET r == PydanticSetattr(self, name, value)
         IN  IF ~r.ok THEN r
             ELSE PydanticSetattr(r.m, updated_at, TimestampNow(t))

\* attribute assignment on an instance of the class
Setattr(self, name, value, t) ==
    IF self.kind = "update" THEN UpdateTimeAwareSetattr(self, name, value, t)
    ELSE PydanticSetattr(self, name, value)

-----------------------------------------------------------------------------
(* JSON *)

JString(s) == [j |-> "string", s |-> s]
JNumber(n) == [j |-> "number", n |-> n]

\* the serializer of a field's annotation (when_used="json")
SerializeField(f, v) ==
    CASE FieldType(f) = "Id" -> JString(IdSerialize(v))
      [] FieldType(f) = "Timestamp" -> JNumber(TimestampSerialize(v))
      [] FieldType(f) = "str" -> JString(v.s)
      [] FieldType(f) = "int" -> JNumber(v.i)

\* the key a field is emitted under
DumpKey(f, by_alias) == IF by_alias THEN Alias(f) ELSE f

\* BaseModel.model_dump_json (by_alias=True): the JSON object, key to value
ModelDumpJson(self) ==
    LET keys == {DumpKey(f, TRUE) : f \in FieldSet(self.kind)}
        fieldOf(k) == CHOOSE f \in FieldSet(self.kind) : DumpKey(f, TRUE) = k
    IN  [k \in keys |-> SerializeField(fieldOf(k), self.d[fieldOf(k)])]

\* the Python value a JSON value is parsed to
FromJson(jv) == IF jv.j = "string" THEN PyStr(jv.s) ELSE PyInt(jv.n)

\* BaseModel.model_validate_json
ModelValidateJson(kind, json, gen, t1, t2) ==
    ModelValidate(kind, [k \in DOMAIN json |-> FromJson(json[k])], gen, t1, t2)

-----------------------------------------------------------------------------
(* The model instance and the operations a caller performs on it *)

NoWire == [json |-> "none"]
NoDecoded == [state |-> "none"]
Idle == [op |-> "none"]

\* values a caller assigns to a field: those of its type, and invalid ones
FieldInputs(f) ==
    CASE f = id ->
            {IdOf("MyId", u) : u \in 0..MaxId}
            \cup {PyStr(encode_ulid(u)) : u \in 0..MaxId} \cup {PyStr(foo)}
      [] f \in {created_at, updated_at} ->
            {Ts(t) : t \in 0..MaxClock} \cup {PyInt(0), PyNone}
      [] f = object_name -> {PyStr(foo), PyStr(bar), PyInt(42)}
      [] f = some_value -> {PyInt(42), PyInt(99), PyStr(foo)}

\* values a caller passes for a field at construction
InitInputs(f) ==
    CASE f = id -> {IdOf("MyId", MaxId), PyStr(encode_ulid(0)), PyStr(foo)}
      [] f \in {created_at, updated_at} -> {Ts(0), Ts(MaxClock), PyNone}
      [] f = object_name -> {PyStr(foo), PyInt(42)}
      [] f = some_value -> {PyInt(42), PyStr(foo)}

\* a second value of the field's type, passed under the field's alias next to
\* a value under its name
OtherInput(f) ==
    CASE f = id -> IdOf("MyId", 0)
      [] f \in {created_at, updated_at} -> Ts(1)
      [] f = object_name -> PyStr(bar)
      [] f = some_value -> PyInt(99)

\* the entries a caller's mapping can hold for one field: none, the value
\* under the name, under the alias, or under both
Frags(f) ==
    {<<>>}
    \cup {f :> v : v \in InitInputs(f)}
    \cup {Alias(f) :> v : v \in InitInputs(f)}
    \cup {(Alias(f) :> OtherInput(f)) @@ (f :> v) : v \in InitInputs(f)}

RECURSIVE Mappings(_, _)
Mappings(fields, i) ==
    IF i > Len(fields) THEN {<<>>}
    ELSE {a @@ b : a \in Frags(fields[i]), b \in Mappings(fields, i + 1)}

\* the mappings a caller constructs an instance of the class from
InitData == [kind \in Kinds |-> Mappings(Fields(kind), 1)]

\* attribute names a caller assigns to: the fields of every class, and a wire
\* name (which is no attribute)
AttrNames == {id, created_at, updated_at, object_name, some_value, Alias(object_name)}

AttrInputs(name) ==
    IF name = Alias(object_name) THEN {PyStr(foo)} ELSE FieldInputs(name)

-----------------------------------------------------------------------------
(* BaseSettings: layered settings, and load from a JSON or YAML file *)

nested_attr == "nested_attr"
nested_numeric == "nested_numeric"

\* the settings class of the tests, its nesting flattened:
\* nested.nested_attr: str and nested.nested_numeric: float, both required
SettingsFields == {nested_attr, nested_numeric}

\* a file path: the text before its last dot, and the rest
Path(name, ext) == [name |-> name, ext |-> ext]

minus_one == <<"-", "1">>
env_text == <<"e", "n", "v">>
dot_text == <<"d", "o", "t">>

\* the files on disk, each with the mapping a settings source reads from it
FilesOnDisk ==
    (Path("settings1", ".json") :> ((nested_attr :> PyStr(foo)) @@ (nested_numeric :> PyFloat(2))))
    @@ (Path("partial", ".json") :> (nested_attr :> PyStr(bar)))
    @@ (Path("invalid", ".json") :> ((nested_attr :> PyStr(bar)) @@ (nested_numeric :> PyStr(foo))))
    @@ (Path("settings", ".yaml") :> ((nested_attr :> PyStr(bar)) @@ (nested_numeric :> PyFloat(6))))
    @@ (Path("settings", ".yml") :> (nested_numeric :> PyFloat(4)))
    @@ (Path("settings", ".toml") :> ((nested_attr :> PyStr(foo)) @@ (nested_numeric :> PyFloat(8))))
    @@ (Path("", ".env") :> (nested_attr :> PyStr(dot_text)))

\* the paths a caller passes to load (one of them names no file), and None
LoadPaths ==
    {Path("settings1", ".json"), Path("partial", ".json"), Path("invalid", ".json"),
     Path("settings", ".yaml"), Path("settings", ".yml"), Path("settings", ".toml"),
     Path("absent", ".json"), PyNone}

\* the environments a run's settings are loaded in
Environs ==
    {a @@ n : a \in {<<>>, nested_attr :> PyStr(env_text)},
              n \in {<<>>, nested_numeric :> PyStr(minus_one), nested_numeric :> PyStr(foo)}}

\* model_config of the settings class: no JSON or YAML file of its own, and a
\* dotenv file
SettingsConfigDict ==
    [json_file |-> PyNone, yaml_file |-> PyNone, env_file |-> Path("", ".env")]

\* str.endswith on a path
EndsWith(path, suffix) == path.ext = suffix

\* a file source (JSON, YAML, dotenv): the content of the configured file, and
\* nothing when none is configured or the file does not exist
ConfigFileSource(file) ==
    IF file # PyNone /\ file \in DOMAIN FilesOnDisk THEN FilesOnDisk[file] ELSE <<>>

\* settings_customise_sources: the sources in the order of their priority, for
\* a construction without init arguments and a class without secrets directory
settings_customise_sources(config, env) ==
    << <<>>,
       ConfigFileSource(config.json_file),
       ConfigFileSource(config.yaml_file),
       env,
       ConfigFileSource(config.env_file),
       <<>> >>

\* the values of the sources merged: state = deep_update(source(), state) for
\* each source in turn, so a key keeps the value of the first source holding it
RECURSIVE BuildValues(_, _, _)
BuildValues(sources, i, state) ==
    IF i > Len(sources) THEN state
    ELSE BuildValues(sources, i + 1, state @@ sources[i])

DigitChars == <<"0", "1", "2", "3", "4", "5", "6", "7", "8", "9">>

\* float(text) for an optional sign and one digit, in halves
FloatOfText(s) ==
    LET body == IF Len(s) > 0 /\ s[1] = "-" THEN Tail(s) ELSE s
        sign == IF Len(s) > 0 /\ s[1] = "-" THEN -1 ELSE 1
    IN  IF Len(body) = 1 /\ \E d \in 1..10 : DigitChars[d] = body[1]
        THEN Ok(PyFloat(sign * 2 * ((CHOOSE d \in 1..10 : DigitChars[d] = body[1]) - 1)))
        ELSE Fail("float_parsing")

\* validation of one settings field (lax mode): a str field takes a str, a
\* float field a float or a numeric string
SettingsField(f, state) ==
    IF f \notin DOMAIN state THEN Fail("missing")
    ELSE IF f = nested_attr
         THEN IF state[f].py = "str" THEN Ok(state[f]) ELSE Fail("string_type")
    ELSE IF state[f].py = "float" THEN Ok(state[f])
    ELSE IF state[f].py = "str" THEN FloatOfText(state[f].s)
    ELSE Fail("float_type")

\* cls(): the settings instance of the merged sources, or a ValidationError
SettingsInit(sources) ==
    LET state == BuildValues(sources, 1, <<>>)
        res == [f \in SettingsFields |-> SettingsField(f, state)]
    IN  IF \A f \in SettingsFields : res[f].ok
        THEN Ok([f \in SettingsFields |-> res[f].v])
        ELSE Fail("ValidationError")

\* with patch_config_value(cls, key, value): body -- the configuration once
\* the block is left: the line after the yield restores the old value when the
\* body returns, and does not run when the body raises
patch_config_value(config, key, value, raised) ==
    LET old_value == config[key]
        patched == [config EXCEPT ![key] = value]
    IN  IF raised THEN patched ELSE [patched EXCEPT ![key] = old_value]

\* the model_config entry load patches for a path: none for None and for a
\* path with another suffix
PatchedKey(setting_file_path) ==
    IF setting_file_path = PyNone THEN "none"
    ELSE IF EndsWith(setting_file_path, ".json") THEN "json_file"
    ELSE IF EndsWith(setting_file_path, ".yaml") \/ EndsWith(setting_file_path, ".yml")
         THEN "yaml_file"
    ELSE "none"

Init ==
    /\ now = 0
    /\ m = NoModel
    /\ err = "none"
    /\ last = Idle
    /\ wire = NoWire
    /\ decoded = NoDecoded
    /\ born = <<>>
    /\ stamp = PyNone
    /\ strCls = <<>>
    /\ strRaw = <<>>
    /\ strVal = <<>>
    /\ strPc = "idle"
    /\ strErr = "none"
    /\ strDef = <<>>
    /\ valType = [base |-> "none"]
    /\ valIn = PyNone
    /\ valOut = PyNone
    /\ valWire = PyNone
    /\ valBack = PyNone
    /\ valPc = "idle"
    /\ json_schema = PyNone
    /\ resolved_refs = <<>>
    /\ schGiven = PyNone
    /\ schOf = PyNone
    /\ schPasses = <<>>
    /\ schOut = PyNone
    /\ schFirst = PyNone
    /\ schPc = "idle"
    /\ environ = <<>>
    /\ model_config = SettingsConfigDict
    /\ setOut = PyNone
    /\ setLast = Idle
    /\ jpRaw = <<>>
    /\ jpText = <<>>

\* time passes
Tick ==
    /\ now < MaxClock
    /\ now' = now + 1
    /\ UNCHANGED <<m, err, last, wire, decoded, born, stamp, stringVars, scalarVars, schemaVars, settingsVars, textVars>>

\* the values a construction takes from ulid.new(): the default factory of id
\* runs once when the mapping holds no id, and not at all when it holds one
Drawn(kind, data, gen) ==
    IF id \in FieldSet(kind) /\ ~Supplied(id, data) THEN <<gen>> ELSE <<>>

\* the methods of the instance BaseModel calls once a construction has
\* validated: the class body holds model_config and model_dump_json only (no
\* __init__, no model_post_init), so a subclass's on_create is not among them
HooksOnCreate(kind, ok) == <<>>

\* MyModel(**data), the first operation of a run: the two default factories
\* read the clock one after the other, and the clock may advance by d between
\* the readings
Construct(kind, data, gen, d) ==
    /\ last = Idle
    /\ now + d <= MaxClock
    /\ LET r == ModelValidate(kind, data, gen, now, now + d)
       IN  /\ m' = r.m
           /\ err' = IF r.ok THEN "none" ELSE "validation_error"
           /\ born' = IF r.ok
                       THEN [f \in {g \in FieldSet(kind) : Frozen(g)} |-> r.m.d[f]]
                       ELSE <<>>
           /\ last' = [op |-> "construct", kind |-> kind,
                       given |-> [k \in DOMAIN data \cap {object_name, Alias(object_name)}
                                    |-> data[k]],
                       supplied |-> [f \in {g \in FieldSet(kind) : Supplied(g, data)}
                                        |-> Lookup(f, data)],
                       t1 |-> now, t2 |-> now + d,
                       drawn |-> Drawn(kind, data, gen),
                       hooks |-> HooksOnCreate(kind, r.ok)]
           /\ stamp' = IF /\ r.ok
                          /\ kind = "update"
                          /\ ~Supplied(created_at, data)
                          /\ ~Supplied(updated_at, data)
                       THEN [t |-> now + d] ELSE PyNone
    /\ now' = now + d
    /\ UNCHANGED <<wire, decoded, stringVars, scalarVars, schemaVars, settingsVars, textVars>>

\* the history of an update-time-aware record built with default timestamps:
\* the instant of its latest successful assignment to a field other than
\* updated_at (of its construction before the first); an assignment to
\* updated_at ends the tracking
Touched(before, name, ok, t) ==
    IF before = PyNone \/ name = updated_at THEN PyNone
    ELSE IF ok THEN [t |-> t]
    ELSE before

\* m.name = value, before the instance is serialized
SetAttr(name, value) ==
    /\ m # NoModel
    /\ wire = NoWire
    /\ LET r == Setattr(m, name, value, now)
       IN  /\ m' = r.m
           /\ err' = r.e
           /\ last' = [op |-> "setattr", name |-> name, value |-> value,
                       before |-> m, t |-> now]
           /\ stamp' = Touched(stamp, name, r.e = "none", now)
    /\ UNCHANGED <<now, wire, decoded, born, stringVars, scalarVars, schemaVars, settingsVars, textVars>>

\* wire = m.model_dump_json()
DumpJson ==
    /\ m # NoModel
    /\ wire' = [json |-> ModelDumpJson(m), src |-> m]
    /\ err' = "none"
    /\ last' = [op |-> "model_dump_json"]
    /\ UNCHANGED <<now, m, decoded, born, stamp, stringVars, scalarVars, schemaVars, settingsVars, textVars>>

\* decoded = type(m).model_validate_json(wire)
ValidateJson(gen) ==
    /\ wire # NoWire
    /\ LET r == ModelValidateJson(wire.src.kind, wire.json, gen, now, now)
       IN  decoded' = [state |-> IF r.ok THEN "ok" ELSE "validation_error",
                       m |-> r.m, t |-> now]
           /\ err' = IF r.ok THEN "none" ELSE "validation_error"
    /\ last' = [op |-> "model_validate_json"]
    /\ UNCHANGED <<now, m, wire, born, stamp, stringVars, scalarVars, schemaVars, settingsVars, textVars>>

Next ==
    \/ Tick
    \/ /\ last = Idle
       /\ \E kind \in Kinds : \E data \in InitData[kind] :
            \E gen \in 0..MaxId : \E d \in 0..1 : Construct(kind, data, gen, d)
    \/ \E name \in AttrNames : \E value \in AttrInputs(name) : SetAttr(name, value)
    \/ DumpJson
    \/ \E gen \in 0..MaxId : ValidateJson(gen)

Spec == Init /\ [][Next]_vars

-----------------------------------------------------------------------------
(* Properties of field assignment, construction and the JSON round trip *)

\* the last operation assigned name on an update-time-aware record
AssignedOnUpdateRecord ==
    /\ last.op = "setattr"
    /\ last.before.kind = "update"

\* an assignment the record must reject: an unknown attribute, a frozen
\* field, or a value the field's type does not accept
Rejectable(name, value) ==
    \/ name \notin {created_at, updated_at, object_name, some_value}
    \/ name = created_at
    \/ /\ name = updated_at
       /\ value.py \notin {"Timestamp", "int"}
    \/ /\ name = object_name
       /\ value.py # "str"
    \/ /\ name = some_value
       /\ value.py # "int"

\* C1: on an update-time-aware record, a successful assignment to a field
\* other than updated_at, made when the clock reads T2, sets updated_at to T2
\* and leaves created_at at the value it had after construction.
C1_AssignmentStampsUpdatedAt ==
    (AssignedOnUpdateRecord /\ err = "none" /\ last.name # updated_at)
    => /\ m.d[updated_at] = Ts(last.t)
       /\ m.d[created_at] = born[created_at]
       /\ m.d[created_at] = last.before.d[created_at]

\* C1 witness: object_name was assigned at a clock reading later than both
\* timestamps of the record, and updated_at now holds that reading.
C1_Witness ==
    /\ AssignedOnUpdateRecord
    /\ err = "none"
    /\ last.name = object_name
    /\ last.before.d[updated_at].t < last.t
    /\ last.before.d[created_at].t < last.t
    /\ m.d[updated_at] = Ts(last.t)

\* C2: on an update-time-aware record, an assignment that must be rejected
\* (invalid value, frozen field, unknown attribute) raises an error and leaves
\* updated_at and every other field as they were before the attempt.
C2_RejectedAssignmentChangesNothing ==
    (AssignedOnUpdateRecord /\ Rejectable(last.name, last.value))
    => /\ err # "none"
       /\ m = last.before

\* C2 witness: an assignment to the frozen created_at was rejected at a clock
\* reading that differs from the record's updated_at.
C2_Witness ==
    /\ AssignedOnUpdateRecord
    /\ last.name = created_at
    /\ err = "frozen_field"
    /\ last.before.d[updated_at] # Ts(last.t)
    /\ m.d[updated_at] = last.before.d[updated_at]

\* C3: assigning a timestamp to updated_at on an update-time-aware record
\* succeeds, stores the assigned value and not the clock reading, and changes
\* no other field.
C3_DirectAssignmentToUpdatedAt ==
    (AssignedOnUpdateRecord /\ last.name = updated_at
        /\ last.value.py \in {"Timestamp", "int"})
    => /\ err = "none"
       /\ last.value.py = "Timestamp" => m.d[updated_at] = last.value
       /\ last.value.py = "int" => m.d[updated_at].t = last.value.i
       /\ \A f \in FieldSet("update") \ {updated_at} : m.d[f] = last.before.d[f]

\* C3 witness: updated_at was assigned a timestamp that is neither the clock
\* reading nor its previous value, and holds it.
C3_Witness ==
    /\ AssignedOnUpdateRecord
    /\ last.name = updated_at
    /\ last.value.py = "Timestamp"
    /\ last.value # Ts(last.t)
    /\ last.value # last.before.d[updated_at]
    /\ m.d[updated_at] = last.value

\* C4: the id of an entity and the created_at of a creation-time-aware record
\* are frozen: every assignment to them, also of an equal value, raises the
\* frozen-field validation error, and the field always holds the value it had
\* after construction.
C4_FrozenFields ==
    /\ (last.op = "setattr" /\ last.name \in FieldSet(last.before.kind)
            /\ last.name \in {id, created_at})
       => (err = "frozen_field" /\ m = last.before)
    /\ m # NoModel
       => \A f \in FieldSet(m.kind) \cap {id, created_at} : m.d[f] = born[f]

\* C4 witness: an entity's id was assigned the value it already holds, and
\* the assignment was rejected.
C4_Witness ==
    /\ last.op = "setattr"
    /\ last.before.kind = "entity"
    /\ last.name = id
    /\ last.value = last.before.d[id]
    /\ err = "frozen_field"
    /\ m.d[id] = born[id]

\* C5: constructing an update-time-aware record without timestamps sets
\* created_at and updated_at to the clock readings of the construction (both to
\* T when it happens at the one instant T); a timestamp that is supplied is
\* stored instead of the clock reading.
C5_ConstructionTimestamps ==
    (last.op = "construct" /\ last.kind = "update" /\ err = "none")
    => /\ created_at \notin DOMAIN last.supplied => m.d[created_at] = Ts(last.t1)
       /\ updated_at \notin DOMAIN last.supplied => m.d[updated_at] = Ts(last.t2)
       /\ (DOMAIN last.supplied \cap {created_at, updated_at} = {} /\ last.t1 = last.t2)
          => (m.d[created_at] = Ts(last.t1) /\ m.d[updated_at] = Ts(last.t1))
       /\ \A f \in DOMAIN last.supplied \cap {created_at, updated_at} :
            m.d[f] = last.supplied[f]

\* C5 witness: a record was constructed without timestamps at an instant after
\* the epoch and holds that instant in both fields.
C5_Witness ==
    /\ last.op = "construct"
    /\ last.kind = "update"
    /\ err = "none"
    /\ DOMAIN last.supplied \cap {created_at, updated_at} = {}
    /\ last.t1 = last.t2
    /\ last.t1 > 0
    /\ m.d[created_at] = Ts(last.t1)
    /\ m.d[updated_at] = Ts(last.t1)

\* C6: decoding the JSON an instance was encoded to gives an instance equal to
\* it, for entities, creation-time-aware and update-time-aware records; a later
\* decoding instant and a newly generated identifier leave no trace.
C6_JsonRoundTrip ==
    last.op = "model_validate_json"
    => /\ decoded.state = "ok"
       /\ decoded.m = wire.src

\* C6 witness: an update-time-aware record was decoded at an instant later than
\* both of its timestamps, and the decoded record equals the encoded one.
C6_Witness ==
    /\ last.op = "model_validate_json"
    /\ wire.src.kind = "update"
    /\ wire.src.d[created_at].t < decoded.t
    /\ wire.src.d[updated_at].t < decoded.t
    /\ wire.src.d[created_at] # wire.src.d[updated_at]
    /\ decoded.m = wire.src

\* the camelCase wire names, written out
objectName == <<"o","b","j","e","c","t","N","a","m","e">>
someValue == <<"s","o","m","e","V","a","l","u","e">>
createdAt == <<"c","r","e","a","t","e","d","A","t">>
updatedAt == <<"u","p","d","a","t","e","d","A","t">>

WireName(f) ==
    CASE f = id -> id
      [] f = created_at -> createdAt
      [] f = updated_at -> updatedAt
      [] f = object_name -> objectName
      [] f = some_value -> someValue

\* C7: a plain model takes a field from the input under its snake_case name or
\* under its camelCase wire name, with the same instance as the result, and
\* model_dump_json emits every field under its camelCase wire name only.
C7_EitherNameInCamelOut ==
    /\ (last.op = "construct" /\ last.kind = "model")
       => \A k \in {object_name, objectName} :
            (DOMAIN last.given = {k} /\ last.given[k].py = "str")
            => /\ err = "none"
               /\ m = [kind |-> "model", d |-> [f \in {object_name} |-> last.given[k]]]
    /\ last.op = "model_dump_json"
       => DOMAIN wire.json = {WireName(f) : f \in FieldSet(m.kind)}

\* C7 witness: a plain model was constructed from its field under the
\* snake_case name.
C7_Witness ==
    /\ last.op = "construct"
    /\ last.kind = "model"
    /\ DOMAIN last.given = {object_name}
    /\ err = "none"
    /\ m.d[object_name] = last.given[object_name]

-----------------------------------------------------------------------------
(* String value types: BaseString and its mixins *)

Normalized       == "NormalizedStringMixIn"
RegexSubstituted == "RegexSubstitutedStringMixIn"
SnakeCase        == "SnakeCaseStringMixIn"
CamelCase        == "CamelCaseStringMixIn"
Trimmed          == "TrimmedStringMixIn"
NonEmpty         == "NonEmptyStringMixIn"
LimitedMinLength == "LimitedMinLengthStringMixIn"
LimitedMaxLength == "LimitedMaxLengthStringMixIn"
RegexMatched     == "RegexMatchedStringMixIn"

\* the mixins that override _proc_str
TransformMixIns == {Normalized, RegexSubstituted, SnakeCase, CamelCase}
\* the mixins that override __get_extra_constraint_dict__
ConstraintMixIns == {Trimmed, NonEmpty, LimitedMinLength, LimitedMaxLength, RegexMatched}

\* cls.get_min_length() and cls.get_max_length() of the class under validation
get_min_length == strDef["get_min_length"]
get_max_length == strDef["get_max_length"]

\* cls.get_pattern() of the matching type of the class documentation
get_pattern == "^[a-z]+$"

\* re.sub(pattern, repl, s) of the substituting type of the class
\* documentation: get_pattern() is [\n\r], get_repl() is " "
SubChar(c) == IF c \in {"nl", "cr"} THEN " " ELSE c
RegexSub(s) == [i \in DOMAIN s |-> SubChar(s[i])]

\* the argument a mixin's _proc_str hands to super()._proc_str
OwnProcStr(mixin, s) ==
    IF mixin = Normalized THEN normalize_jptext(s)
    ELSE IF mixin = RegexSubstituted THEN RegexSub(s)
    ELSE IF mixin = SnakeCase THEN to_snake(s)
    ELSE IF mixin = CamelCase THEN to_camel(s)
    ELSE s

\* the method resolution order of class X(bases...): the bases as listed, then
\* BaseString (NonEmptyStringMixIn stands for itself followed by its base
\* LimitedMinLengthStringMixIn, whose get_min_length it overrides)
Mro(bases) == bases \o <<"BaseString">>

\* a chain written backwards: the class listed last transforms the input first
RECURSIVE ProcStrLastListedFirst(_, _, _)
ProcStrLastListedFirst(mro, i, s) ==
    IF i > Len(mro) THEN s
    ELSE OwnProcStr(mro[i], ProcStrLastListedFirst(mro, i + 1, s))

\* cls._proc_str(s): the first class of the order that defines _proc_str
\* transforms s and calls super()._proc_str, which is the next class of the
\* order; BaseString._proc_str returns its argument
RECURSIVE ProcStr(_, _, _)
ProcStr(mro, i, s) ==
    IF i > Len(mro) THEN s
    ELSE ProcStr(mro, i + 1, OwnProcStr(mro[i], s))

\* a trimming mixin that contributes nothing to the constraints
OwnConstraintWithoutStrip(mixin) ==
    IF mixin = NonEmpty THEN [min_length |-> 1]
    ELSE IF mixin = LimitedMinLength THEN [min_length |-> get_min_length]
    ELSE IF mixin = LimitedMaxLength THEN [max_length |-> get_max_length]
    ELSE IF mixin = RegexMatched THEN [pattern |-> get_pattern]
    ELSE <<>>

\* the entry a mixin adds to super().__get_extra_constraint_dict__()
OwnConstraint(mixin) ==
    IF mixin = Trimmed THEN [strip_whitespace |-> TRUE]
    ELSE IF mixin = NonEmpty THEN [min_length |-> 1]
    ELSE IF mixin = LimitedMinLength THEN [min_length |-> get_min_length]
    ELSE IF mixin = LimitedMaxLength THEN [max_length |-> get_max_length]
    ELSE IF mixin = RegexMatched THEN [pattern |-> get_pattern]
    ELSE <<>>

\* d | e: the entries of e, and the entries of d under the other keys
DictOr(d, e) == [k \in DOMAIN d \cup DOMAIN e |-> IF k \in DOMAIN e THEN e[k] ELSE d[k]]

\* a descriptor made of the entry of the first contributing class alone, as
\* if that class did not merge its entry into super()'s
RECURSIVE ExtraConstraintDictWithoutSuper(_, _)
ExtraConstraintDictWithoutSuper(mro, i) ==
    IF i > Len(mro) THEN <<>>
    ELSE IF DOMAIN OwnConstraint(mro[i]) # {} THEN OwnConstraint(mro[i])
    ELSE ExtraConstraintDictWithoutSuper(mro, i + 1)

\* cls.__get_extra_constraint_dict__(): BaseString returns {}
RECURSIVE ExtraConstraintDict(_, _)
ExtraConstraintDict(mro, i) ==
    IF i > Len(mro) THEN <<>>
    ELSE DictOr(ExtraConstraintDict(mro, i + 1), OwnConstraint(mro[i]))

\* str.trim() of the string validator
RECURSIVE TrimStart(_)
TrimStart(s) ==
    IF Len(s) = 0 \/ ~IsSpace(s[1]) THEN s ELSE TrimStart(Tail(s))

RECURSIVE TrimEnd(_)
TrimEnd(s) ==
    IF Len(s) = 0 \/ ~IsSpace(s[Len(s)]) THEN s ELSE TrimEnd(SubSeq(s, 1, Len(s) - 1))

Trim(s) == TrimEnd(TrimStart(s))

\* whether the pattern is found in the text (the search of the validator's
\* regex engine, where $ is the end of the text): ^[a-z]+$
PatternSearch(pattern, v) ==
    pattern = "^[a-z]+$" /\ Len(v) >= 1 /\ \A i \in DOMAIN v : v[i] \in Range(Lowers)

\* a string schema whose length bounds are exclusive
StrSchemaExclusiveBounds(constraints, s) ==
    LET v == IF "strip_whitespace" \in DOMAIN constraints /\ constraints["strip_whitespace"]
             THEN Trim(s) ELSE s
    IN  IF "min_length" \in DOMAIN constraints /\ Len(v) <= constraints["min_length"]
        THEN Fail("string_too_short")
        ELSE IF "max_length" \in DOMAIN constraints /\ Len(v) >= constraints["max_length"]
        THEN Fail("string_too_long")
        ELSE IF "pattern" \in DOMAIN constraints /\ ~PatternSearch(constraints["pattern"], v)
        THEN Fail("string_pattern_mismatch")
        ELSE Ok(v)

\* a string schema that checks the text it was handed and strips afterwards
StrSchemaCheckBeforeStrip(constraints, s) ==
    LET v == IF "strip_whitespace" \in DOMAIN constraints /\ constraints["strip_whitespace"]
             THEN Trim(s) ELSE s
    IN  IF "min_length" \in DOMAIN constraints /\ Len(s) < constraints["min_length"]
        THEN Fail("string_too_short")
        ELSE IF "max_length" \in DOMAIN constraints /\ Len(s) > constraints["max_length"]
        THEN Fail("string_too_long")
        ELSE IF "pattern" \in DOMAIN constraints /\ ~PatternSearch(constraints["pattern"], s)
        THEN Fail("string_pattern_mismatch")
        ELSE Ok(v)

\* core_schema.str_schema(**constraints) applied to a text: strip, then the
\* length checks and the pattern check on the stripped text
StrSchema(constraints, s) ==
    LET v == IF "strip_whitespace" \in DOMAIN constraints /\ constraints["strip_whitespace"]
             THEN Trim(s) ELSE s
    IN  IF "min_length" \in DOMAIN constraints /\ Len(v) < constraints["min_length"]
        THEN Fail("string_too_short")
        ELSE IF "max_length" \in DOMAIN constraints /\ Len(v) > constraints["max_length"]
        THEN Fail("string_too_long")
        ELSE IF "pattern" \in DOMAIN constraints /\ ~PatternSearch(constraints["pattern"], v)
        THEN Fail("string_pattern_mismatch")
        ELSE Ok(v)

-----------------------------------------------------------------------------
(* Validation of a text by a string type, one step of the schema
   function-after[cls, function-before[_proc_str, str]] at a time *)

\* the characters of the inputs: ASCII letters of both cases, a full-width
\* capital, the zero-width space, the space and the line feed
Alphabet == {"a", "B", "fw_B", "zwsp", " ", "nl"}

RECURSIVE TextsOfLen(_)
TextsOfLen(n) ==
    IF n = 0 THEN {<<>>}
    ELSE {<<c>> \o t : c \in Alphabet, t \in TextsOfLen(n - 1)}

Texts == UNION {TextsOfLen(n) : n \in 0..MaxLen}

MixIns == TransformMixIns \cup ConstraintMixIns

\* class X(A, BaseString) and class X(A, B, BaseString) for distinct mixins.
\* NonEmptyStringMixIn derives from LimitedMinLengthStringMixIn: listing the
\* base first has no consistent resolution order, listing it second adds
\* nothing to the class.
StringClasses ==
    {<<a>> : a \in MixIns}
    \cup {c \in MixIns \X MixIns :
            c[1] # c[2] /\ {c[1], c[2]} # {NonEmpty, LimitedMinLength}}

\* the methods a concrete class has to override for its mixins
Overridden(cls) ==
    {k \in {"get_min_length", "get_max_length"} :
        \/ k = "get_min_length" /\ LimitedMinLength \in Range(cls)
        \/ k = "get_max_length" /\ LimitedMaxLength \in Range(cls)}

\* the class bodies: each overridden method returns a length of 1 .. MaxLen
ClassBodies(cls) == [Overridden(cls) -> 1..MaxLen]

\* TypeAdapter(cls).validate_python(raw) is entered for a class with the body
\* def; a validation keeps no state for the next one, so a behaviour follows
\* one validation
Validate(cls, def, raw) ==
    /\ strPc = "idle"
    /\ valPc = "idle"
    /\ strCls' = cls
    /\ strDef' = def
    /\ strRaw' = raw
    /\ strVal' = raw
    /\ strPc' = "function-before"
    /\ strErr' = "none"
    /\ UNCHANGED <<modelVars, scalarVars, schemaVars, settingsVars, textVars>>

\* the before validator: cls._proc_str(input)
BeforeValidator ==
    /\ strPc = "function-before"
    /\ strVal' = ProcStr(Mro(strCls), 1, strVal)
    /\ strPc' = "str"
    /\ UNCHANGED <<strCls, strRaw, strErr, strDef>>
    /\ UNCHANGED <<modelVars, scalarVars, schemaVars, settingsVars, textVars>>

\* the inner schema: str_schema(**cls.__get_extra_constraint_dict__())
StrValidator ==
    /\ strPc = "str"
    /\ LET r == StrSchema(ExtraConstraintDict(Mro(strCls), 1), strVal)
       IN  IF r.ok
           THEN /\ strVal' = r.v
                /\ strPc' = "function-after"
                /\ strErr' = "none"
           ELSE /\ strVal' = strVal
                /\ strPc' = "rejected"
                /\ strErr' = r.e
    /\ UNCHANGED <<strCls, strRaw, strDef>>
    /\ UNCHANGED <<modelVars, scalarVars, schemaVars, settingsVars, textVars>>

\* the after validator: cls(value), a str subclass holding the same text
AfterValidator ==
    /\ strPc = "function-after"
    /\ strPc' = "done"
    /\ UNCHANGED <<strCls, strRaw, strVal, strErr, strDef>>
    /\ UNCHANGED <<modelVars, scalarVars, schemaVars, settingsVars, textVars>>

StringNext ==
    \/ /\ strPc = "idle" /\ valPc = "idle"
       /\ \E cls \in StringClasses, raw \in Texts :
            \E def \in ClassBodies(cls) : Validate(cls, def, raw)
    \/ BeforeValidator
    \/ StrValidator
    \/ AfterValidator

StringSpec == Init /\ [][StringNext]_vars

-----------------------------------------------------------------------------
(* Claims about the composition of string mixins *)

\* class X(A, B): two transforming mixins, A listed first
TwoTransforms == Len(strCls) = 2 /\ strCls[1] \in TransformMixIns /\ strCls[2] \in TransformMixIns

\* the text A's transform makes of the text B's transform makes of the input
SecondThenFirst == OwnProcStr(strCls[1], OwnProcStr(strCls[2], strRaw))
\* the text B's transform makes of the text A's transform makes of the input
FirstThenSecond == OwnProcStr(strCls[2], OwnProcStr(strCls[1], strRaw))

\* C8 as stated: for a type written "TransformA then TransformB", the text
\* that reaches the structural check is the input transformed by TransformB
\* first and by TransformA second.
C8_SecondListedTransformsFirst ==
    (strPc = "str" /\ TwoTransforms) => strVal = SecondThenFirst

\* C8 (amended): for a type written "TransformA then TransformB", nothing is
\* transformed before the before validator runs, and the text that reaches
\* the structural check is the input transformed by TransformA first and by
\* TransformB second.
C8_FirstListedTransformsFirst ==
    /\ strPc = "function-before" => strVal = strRaw
    /\ (strPc = "str" /\ TwoTransforms) => strVal = FirstThenSecond

\* a type whose two transforms do not commute on the input has reached the
\* structural check
C8_Witness ==
    /\ strPc = "str"
    /\ TwoTransforms
    /\ strVal = FirstThenSecond
    /\ FirstThenSecond # SecondThenFirst

\* C9: a validated value of the type (Normalized, SnakeCase) is the snake case
\* of the normalized input, and one of the type (SnakeCase, Normalized) is the
\* normal form of the snake-cased input: the mixin listed first transforms
\* the raw input.
C9_NormalizedSnakeCaseOrder ==
    strPc = "done" =>
        /\ strCls = <<Normalized, SnakeCase>> => strVal = to_snake(normalize_jptext(strRaw))
        /\ strCls = <<SnakeCase, Normalized>> => strVal = normalize_jptext(to_snake(strRaw))

\* "a" followed by a full-width "B": snake case first lowers the full-width
\* letter, which normalization then narrows, and no underscore appears
C9_Witness ==
    /\ strPc = "done"
    /\ strCls = <<SnakeCase, Normalized>>
    /\ strRaw = <<"a", "fw_B">>
    /\ strVal = <<"a", "b">>
    /\ to_snake(normalize_jptext(strRaw)) = <<"a", "_", "b">>

\* the mixins of the class other than TrimmedStringMixIn, in the listed order
OtherMixIns == SelectSeq(strCls, LAMBDA x : x # Trimmed)

\* C10: wherever TrimmedStringMixIn stands in the list of mixins, a validated
\* value is the trimmed form of the text the transforms of the other mixins
\* make of the input, so it neither starts nor ends with whitespace.
C10_TrimAfterTransforms ==
    (strPc = "done" /\ Trimmed \in Range(strCls)) =>
        /\ strVal = Trim(IF OtherMixIns = <<>> THEN strRaw
                         ELSE OwnProcStr(OtherMixIns[1], strRaw))
        /\ strVal # <<>> => ~IsSpace(strVal[1]) /\ ~IsSpace(strVal[Len(strVal)])

\* a zero-width space, which is not whitespace, leads the input; normalization
\* turns it into a space, and the space is trimmed although the trimming
\* mixin is listed last
C10_Witness ==
    /\ strPc = "done"
    /\ strCls = <<Normalized, Trimmed>>
    /\ strRaw = <<"zwsp", "a">>
    /\ Trim(strRaw) = strRaw
    /\ strVal = <<"a">>

-----------------------------------------------------------------------------
(* Claims about the constraints of string types *)

\* the text the transforms of the class and the trimming make of the input
Transformed ==
    LET t == ProcStr(Mro(strCls), 1, strRaw)
    IN  IF Trimmed \in Range(strCls) THEN Trim(t) ELSE t

\* the transformed text is shorter than the minimum length of the class
TooShort ==
    \/ NonEmpty \in Range(strCls) /\ Len(Transformed) < 1
    \/ LimitedMinLength \in Range(strCls) /\ Len(Transformed) < strDef["get_min_length"]

\* the transformed text is longer than the maximum length of the class
TooLong ==
    LimitedMaxLength \in Range(strCls) /\ Len(Transformed) > strDef["get_max_length"]

\* the transformed text is not a run of one or more of a..z
Mismatch ==
    /\ RegexMatched \in Range(strCls)
    /\ (Transformed = <<>> \/ \E i \in DOMAIN Transformed : ~IsLower(Transformed[i]))

\* C11: the constraints are checked on the transformed and trimmed text: an
\* accepted value is that text and it satisfies every constraint of the
\* class; a rejection carries one of the kinds string_too_short,
\* string_too_long, string_pattern_mismatch, and the transformed text
\* violates the constraint of that kind.
C11_ConstraintsOnTransformedValue ==
    /\ strPc \in {"function-after", "done"} =>
           /\ strVal = Transformed
           /\ strErr = "none"
           /\ ~TooShort /\ ~TooLong /\ ~Mismatch
    /\ strPc = "rejected" =>
           /\ strErr \in {"string_too_short", "string_too_long", "string_pattern_mismatch"}
           /\ strErr = "string_too_short" => TooShort
           /\ strErr = "string_too_long" => TooLong
           /\ strErr = "string_pattern_mismatch" => Mismatch

\* an input as long as the minimum is rejected as too short, because the
\* trimming took a character away
C11_Witness ==
    /\ strPc = "rejected"
    /\ Trimmed \in Range(strCls)
    /\ LimitedMinLength \in Range(strCls)
    /\ Len(strRaw) >= strDef["get_min_length"]
    /\ strErr = "string_too_short"

\* a class whose mixins are length limits only
LengthLimitsOnly ==
    strCls # <<>> /\ Range(strCls) \subseteq {LimitedMinLength, LimitedMaxLength}

\* the input has fewer code points than the minimum of the class
BelowMin == LimitedMinLength \in Range(strCls) /\ Len(strRaw) < strDef["get_min_length"]
\* the input has more code points than the maximum of the class
AboveMax == LimitedMaxLength \in Range(strCls) /\ Len(strRaw) > strDef["get_max_length"]

\* C12: a type with minimum length m rejects exactly the texts of fewer than
\* m code points, as string_too_short; a type with maximum length M rejects
\* exactly the texts of more than M code points, as string_too_long; a type
\* with both accepts exactly the lengths m .. M, and an accepted text is
\* stored as it is.
C12_InclusiveLengthBounds ==
    (LengthLimitsOnly /\ strPc \in {"function-after", "done", "rejected"}) =>
        /\ strPc = "rejected" <=> (BelowMin \/ AboveMax)
        /\ strErr = "string_too_short" <=> BelowMin
        /\ strErr = "string_too_long" <=> (~BelowMin /\ AboveMax)
        /\ strPc # "rejected" => strVal = strRaw

\* a type with minimum m and a larger maximum M has accepted a text of
\* exactly M code points
C12_Witness ==
    /\ strPc = "done"
    /\ Range(strCls) = {LimitedMinLength, LimitedMaxLength}
    /\ strDef["get_min_length"] < strDef["get_max_length"]
    /\ Len(strRaw) = strDef["get_max_length"]
    /\ strVal = strRaw

\* the class of the same mixins listed in the opposite order
Reversed(cls) == [i \in DOMAIN cls |-> cls[Len(cls) + 1 - i]]

\* the kind of constraint a mixin stands for, if any
KindsOf(cls) ==
    {k \in {"min_length", "max_length", "pattern", "strip_whitespace"} :
        \/ k = "min_length" /\ Range(cls) \cap {NonEmpty, LimitedMinLength} # {}
        \/ k = "max_length" /\ LimitedMaxLength \in Range(cls)
        \/ k = "pattern" /\ RegexMatched \in Range(cls)
        \/ k = "strip_whitespace" /\ Trimmed \in Range(cls)}

\* C13: the constraint descriptor of a class has one entry for each kind its
\* mixins contribute and no other entry, and it is the same mapping when the
\* same mixins are listed in the opposite order.
C13_DescriptorOrderIndependent ==
    strPc # "idle" =>
        LET d == ExtraConstraintDict(Mro(strCls), 1)
        IN  /\ DOMAIN d = KindsOf(strCls)
            /\ d = ExtraConstraintDict(Mro(Reversed(strCls)), 1)
            /\ LimitedMinLength \in Range(strCls) => d["min_length"] = strDef["get_min_length"]
            /\ LimitedMaxLength \in Range(strCls) => d["max_length"] = strDef["get_max_length"]

\* a text has passed the structural check of a class of two constraint mixins
\* that contribute different kinds
C13_Witness ==
    /\ strPc = "function-after"
    /\ strCls = <<LimitedMaxLength, LimitedMinLength>>
    /\ DOMAIN ExtraConstraintDict(Mro(strCls), 1) = {"min_length", "max_length"}
    /\ Reversed(strCls) = <<LimitedMinLength, LimitedMaxLength>>

-----------------------------------------------------------------------------
(* BaseBytes, BaseInteger, BaseFloat and the bound mixins *)

BaseBytes(b) == [py |-> "BaseBytes", b |-> b]

\* BaseBytes.__new__: bytes are kept, text is decoded
BaseBytesNew(value) ==
    IF value.py \in {"bytes", "BaseBytes"} THEN Ok(BaseBytes(value.b))
    ELSE LET r == standard_b64decode(value.s)
         IN  IF r.ok THEN Ok(BaseBytes(r.v)) ELSE r

\* BaseBytes.validate
BaseBytesValidate(value) ==
    IF value.py = "BaseBytes" THEN Ok(value)
    ELSE IF value.py \in {"bytes", "str"} THEN BaseBytesNew(value)
    ELSE Fail("value_error")

\* BaseBytes.serialize
BaseBytesSerialize(v) == PyStr(standard_b64encode(v.b))

LowerBoundInteger == "LowerBoundIntegerMixIn"
UpperBoundInteger == "UpperBoundIntegerMixIn"
LowerBoundFloat   == "LowerBoundFloatMixIn"
UpperBoundFloat   == "UpperBoundFloatMixIn"

\* the entry a lower bound mixin adds to super().__get_extra_constraint_dict__()
LowerBoundConstraint(mixin, def) ==
    IF mixin \in {LowerBoundInteger, LowerBoundFloat} THEN [ge |-> def["get_min_value"]]
    ELSE <<>>

\* the entry an upper bound mixin adds to it
UpperBoundConstraint(mixin, def) ==
    IF mixin \in {UpperBoundInteger, UpperBoundFloat} THEN [le |-> def["get_max_value"]]
    ELSE <<>>

\* cls.__get_extra_constraint_dict__() of a number type: BaseInteger and
\* BaseFloat return {}
RECURSIVE NumberConstraintDict(_, _, _)
NumberConstraintDict(mro, i, def) ==
    IF i > Len(mro) THEN <<>>
    ELSE DictOr(NumberConstraintDict(mro, i + 1, def),
                DictOr(LowerBoundConstraint(mro[i], def), UpperBoundConstraint(mro[i], def)))

\* the number an int or a float (BaseInteger and BaseFloat are such) stands
\* for, in halves
Halves(x) == IF x.py \in {"float", "BaseFloat"} THEN x.h ELSE 2 * x.i

\* a number schema whose bounds are exclusive
NumberBoundsExclusive(constraints, x) ==
    IF "le" \in DOMAIN constraints /\ ~(Halves(x) < Halves(constraints["le"]))
    THEN Fail("less_than_equal")
    ELSE IF "ge" \in DOMAIN constraints /\ ~(Halves(x) > Halves(constraints["ge"]))
    THEN Fail("greater_than_equal")
    ELSE Ok(x)

\* the bound checks of int_schema(**constraints) and float_schema(**constraints)
NumberBounds(constraints, x) ==
    IF "le" \in DOMAIN constraints /\ ~(Halves(x) <= Halves(constraints["le"]))
    THEN Fail("less_than_equal")
    ELSE IF "ge" \in DOMAIN constraints /\ ~(Halves(x) >= Halves(constraints["ge"]))
    THEN Fail("greater_than_equal")
    ELSE Ok(x)

\* core_schema.int_schema(**constraints): an int is checked against the
\* bounds, a float without fractional part is taken as that int, the texts
\* of this model are no integers
IntSchema(constraints, x) ==
    IF x.py = "int" THEN NumberBounds(constraints, x)
    ELSE IF x.py = "float"
         THEN IF x.h % 2 = 0 THEN NumberBounds(constraints, PyInt(x.h \div 2))
              ELSE Fail("int_from_float")
    ELSE IF x.py = "str" THEN Fail("int_parsing")
    ELSE Fail("int_type")

\* core_schema.float_schema(**constraints): an int is taken as the float of
\* the same value
FloatSchema(constraints, x) ==
    IF x.py = "float" THEN NumberBounds(constraints, x)
    ELSE IF x.py = "int" THEN NumberBounds(constraints, PyFloat(2 * x.i))
    ELSE IF x.py = "str" THEN Fail("float_parsing")
    ELSE Fail("float_type")

\* BaseInteger.validate: cls(value) of an int
BaseIntegerValidate(value) ==
    IF value.py = "BaseInteger" THEN Ok(value)
    ELSE IF value.py = "int" THEN Ok([py |-> "BaseInteger", i |-> value.i])
    ELSE Fail("value_error")

\* BaseFloat.validate: cls(value) of a float
BaseFloatValidate(value) ==
    IF value.py = "BaseFloat" THEN Ok(value)
    ELSE IF value.py = "float" THEN Ok([py |-> "BaseFloat", h |-> value.h])
    ELSE Fail("value_error")

\* BaseInteger.serialize: int(self)
BaseIntegerSerialize(v) == PyInt(v.i)
\* BaseFloat.serialize: float(self)
BaseFloatSerialize(v) == PyFloat(v.h)

-----------------------------------------------------------------------------
(* Validation and serialization of one value of a bytes, number, Id or
   Timestamp type: validate the input, serialize the value, validate what
   was serialized *)

ValueType(base, mixins, def) == [base |-> base, mixins |-> mixins, def |-> def]

\* class X(LowerBound..., UpperBound...) in both listing orders, with the
\* bounds lo <= hi it returns from get_min_value and get_max_value
BoundedTypes(base, lower, upper, numbers) ==
    {ValueType(base, <<>>, <<>>)}
    \cup {ValueType(base, <<lower>>, [get_min_value |-> lo]) : lo \in numbers}
    \cup {ValueType(base, <<upper>>, [get_max_value |-> hi]) : hi \in numbers}
    \cup {ValueType(base, mx, [get_min_value |-> b[1], get_max_value |-> b[2]]) :
            mx \in {<<lower, upper>>, <<upper, lower>>},
            b \in {c \in numbers \X numbers : Halves(c[1]) <= Halves(c[2])}}

Ints == {PyInt(i) : i \in 0..MaxInt}
Floats == {PyFloat(h) : h \in 0..(2 * MaxInt)}

RECURSIVE BytesOfLen(_)
BytesOfLen(n) ==
    IF n = 0 THEN {<<>>}
    ELSE {<<c>> \o t : c \in {0, 97, 128, 255}, t \in BytesOfLen(n - 1)}

\* byte strings of 0 .. MaxBytes bytes, among them bytes that are no UTF-8
ByteStrings == UNION {BytesOfLen(n) : n \in 0..MaxBytes}

ValueTypes ==
    {ValueType(b, <<>>, <<>>) : b \in {"BaseBytes", "Id", "Timestamp"}}
    \cup BoundedTypes("BaseInteger", LowerBoundInteger, UpperBoundInteger, Ints)
    \cup BoundedTypes("BaseFloat", LowerBoundFloat, UpperBoundFloat, Floats)

\* the inputs handed to the validating path of a type
ValueInputs(type) ==
    CASE type.base = "BaseBytes" ->
            {PyBytes(b) : b \in ByteStrings}
            \cup {PyStr(standard_b64encode(b)) : b \in ByteStrings}
            \cup {PyStr(<<"Y", "Q", "=">>), PyInt(0)}
      [] type.base = "Id" ->
            {PyStr(encode_ulid(u)) : u \in 0..MaxId}
            \cup {IdOf("ULID", u) : u \in 0..MaxId} \cup {PyStr(foo), PyInt(0)}
      [] type.base = "Timestamp" ->
            {PyInt(t) : t \in 0..MaxClock} \cup {Ts(t) : t \in 0..MaxClock} \cup {PyStr(foo)}
      [] type.base = "BaseInteger" -> Ints \cup {PyFloat(2), PyFloat(3), PyStr(foo)}
      [] type.base = "BaseFloat" -> Floats \cup Ints \cup {PyStr(foo)}

\* the validating path of a type: the schema of the type, then its validate
ValidatingPath(type, x) ==
    CASE type.base = "BaseBytes" -> BaseBytesValidate(x)
      [] type.base = "Id" -> IdValidate("Id", x)
      [] type.base = "Timestamp" -> TimestampValidate(x)
      [] type.base = "BaseInteger" ->
            LET r == IntSchema(NumberConstraintDict(type.mixins \o <<type.base>>, 1, type.def), x)
            IN  IF r.ok THEN BaseIntegerValidate(r.v) ELSE r
      [] type.base = "BaseFloat" ->
            LET r == FloatSchema(NumberConstraintDict(type.mixins \o <<type.base>>, 1, type.def), x)
            IN  IF r.ok THEN BaseFloatValidate(r.v) ELSE r

\* cls.serialize of a value of the type
SerializeValue(type, v) ==
    CASE type.base = "BaseBytes" -> BaseBytesSerialize(v)
      [] type.base = "Id" -> PyStr(IdSerialize(v))
      [] type.base = "Timestamp" -> PyInt(TimestampSerialize(v))
      [] type.base = "BaseInteger" -> BaseIntegerSerialize(v)
      [] type.base = "BaseFloat" -> BaseFloatSerialize(v)

\* TypeAdapter(type).validate_python(x)
ValidateValue(type, x) ==
    /\ valPc = "idle"
    /\ strPc = "idle"
    /\ valType' = type
    /\ valIn' = x
    /\ valOut' = ValidatingPath(type, x)
    /\ valPc' = IF valOut'.ok THEN "validated" ELSE "rejected"
    /\ UNCHANGED <<valWire, valBack>>
    /\ UNCHANGED <<modelVars, stringVars, schemaVars, settingsVars, textVars>>

\* value.serialize()
Serialize ==
    /\ valPc = "validated"
    /\ valWire' = SerializeValue(valType, valOut.v)
    /\ valPc' = "serialized"
    /\ UNCHANGED <<valType, valIn, valOut, valBack>>
    /\ UNCHANGED <<modelVars, stringVars, schemaVars, settingsVars, textVars>>

\* TypeAdapter(type).validate_python(wire) of the serialized value
Revalidate ==
    /\ valPc = "serialized"
    /\ valBack' = ValidatingPath(valType, valWire)
    /\ valPc' = "restored"
    /\ UNCHANGED <<valType, valIn, valOut, valWire>>
    /\ UNCHANGED <<modelVars, stringVars, schemaVars, settingsVars, textVars>>

ScalarNext ==
    \/ /\ valPc = "idle" /\ strPc = "idle"
       /\ \E type \in ValueTypes : \E x \in ValueInputs(type) : ValidateValue(type, x)
    \/ Serialize
    \/ Revalidate

ScalarSpec == Init /\ [][ScalarNext]_vars

-----------------------------------------------------------------------------
(* One value of any value type: a string type or one of the other types *)

\* one validation is followed, of a text by a string type or of a value by
\* one of the other types
ValueNext ==
    \/ StringNext
    \/ ScalarNext

ValueSpec == Init /\ [][ValueNext]_vars

-----------------------------------------------------------------------------
(* Claims about the value types *)

\* the input is in the form serialize emits: text or a number, not an object
\* of the program
WireInput == valIn.py \in {"str", "int", "float"}

\* == of two serialized values: texts by their characters, numbers by value
WireEq(x, y) ==
    IF x.py = "str" \/ y.py = "str" THEN x.py = y.py /\ x.s = y.s
    ELSE Halves(x) = Halves(y)

C15_BytesRoundTrip ==
    (valType.base = "BaseBytes" /\ valIn.py = "bytes") =>
        /\ valPc \in {"serialized", "restored"} =>
              BaseBytesNew(valWire) = Ok(BaseBytes(valIn.b))
        /\ valPc = "restored" => valBack = Ok(BaseBytes(valIn.b))

\* bytes that are no UTF-8 and need padding came back from their base64 text
C15_Witness ==
    /\ valPc = "restored"
    /\ valType.base = "BaseBytes"
    /\ valIn = PyBytes(<<255, 128>>)
    /\ valWire = PyStr(<<"/", "4", "A", "=">>)
    /\ valBack = Ok(BaseBytes(<<255, 128>>))

\* the type under validation lists a lower and an upper bound mixin
Bounded ==
    /\ valType.base \in {"BaseInteger", "BaseFloat"}
    /\ {"get_min_value", "get_max_value"} \subseteq DOMAIN valType.def

\* the input is a number of the type's kind: an integer, or for a float type
\* any float, for an integer type a float without fractional part
NumberOfKind ==
    \/ valIn.py = "int"
    \/ valIn.py = "float" /\ (valType.base = "BaseFloat" \/ valIn.h % 2 = 0)

\* C16: a bounded integer or float type with lower bound lo and upper bound
\* hi accepts exactly the numbers v with lo <= v <= hi, both bounds included;
\* v < lo is rejected as greater_than_equal, v > hi as less_than_equal
C16_InclusiveNumberBounds ==
    (valPc # "idle" /\ Bounded /\ NumberOfKind) =>
        LET lo == Halves(valType.def["get_min_value"])
            hi == Halves(valType.def["get_max_value"])
            v  == Halves(valIn)
        IN  /\ valOut.ok <=> (lo <= v /\ v <= hi)
            /\ valOut.ok => Halves(valOut.v) = v
            /\ v < lo => valOut = Fail("greater_than_equal")
            /\ v > hi => valOut = Fail("less_than_equal")

\* the upper bound itself was accepted by a type bounded on both sides
C16_Witness ==
    /\ valPc = "validated"
    /\ valType = ValueType("BaseInteger", <<UpperBoundInteger, LowerBoundInteger>>,
                           [get_min_value |-> PyInt(1), get_max_value |-> PyInt(2)])
    /\ valIn = PyInt(2)
    /\ valOut.ok

-----------------------------------------------------------------------------
(* Claims about entities *)

\* an entity was constructed by the last operation
EntityConstructed == last.op = "construct" /\ last.kind = "entity" /\ err = "none"

\* the entities another construction without an id makes when ulid.new()
\* returns a value other than u
OtherGenerated(u) ==
    {ModelValidate("entity", data, gen, now, now).m :
        data \in {x \in InitData["entity"] :
                    ~Supplied(id, x) /\ ModelValidate("entity", x, 0, now, now).ok},
        gen \in (0..MaxId) \ {u}}

\* C17: an entity constructed without an id holds a freshly generated id that
\* is an instance of the declared Id subtype, one value drawn from ulid.new()
\* per construction; an entity constructed the same way with another
\* generated id is unequal to it; an entity constructed with an id keeps that
\* id and draws none
C17_EntityId ==
    EntityConstructed =>
        /\ id \notin DOMAIN last.supplied =>
              /\ Len(last.drawn) = 1
              /\ m.d[id] = IdOf("MyId", last.drawn[1])
              /\ \A e \in OtherGenerated(last.drawn[1]) :
                    e.d[id] # m.d[id] /\ e # m
        /\ id \in DOMAIN last.supplied =>
              /\ last.drawn = <<>>
              /\ m.d[id].cls = "MyId"
              /\ last.supplied[id].py = "Id" => m.d[id].u = last.supplied[id].u
              /\ last.supplied[id].py = "str" =>
                    PyStr(IdSerialize(m.d[id])) = last.supplied[id]

\* an entity was constructed from a name alone and holds the generated id,
\* and another generated id makes another entity
C17_Witness ==
    /\ EntityConstructed
    /\ DOMAIN last.supplied = {object_name}
    /\ last.drawn = <<MaxId>>
    /\ m.d[id] = IdOf("MyId", MaxId)
    /\ OtherGenerated(MaxId) # {}

-----------------------------------------------------------------------------
(* json_schema_to_model: a model type is synthesized from a schema document.
   A document is [defs, title, properties]: defs is the $defs mapping as the
   sequence of its items in insertion order, properties maps a wire key to a
   type descriptor; a $ref "#/$defs/X" is written [ref |-> "X"]. *)

PyType(name) == [py |-> name]
SequenceOf(t) == [py |-> "Sequence", of |-> t]

\* the model type create_model makes: its name and its fields
ModelType(title, fields) == [py |-> "model", title |-> title, fields |-> fields]

primitive_map ==
    [integer |-> PyType("int"), string |-> PyType("str"),
     number |-> PyType("float"), boolean |-> PyType("bool")]

\* defs[json_schema_type["$ref"]]
DefsLookup(ref, defs) == IF ref \in DOMAIN defs THEN Ok(defs[ref]) ELSE Fail("KeyError")

\* _json_schema_type_to_python_type
json_schema_type_to_python_type(json_schema_type, defs) ==
    IF "type" \in DOMAIN json_schema_type /\ json_schema_type.type \in DOMAIN primitive_map
    THEN Ok(primitive_map[json_schema_type.type])
    ELSE IF "type" \in DOMAIN json_schema_type /\ json_schema_type.type = "array"
    THEN IF "items" \notin DOMAIN json_schema_type THEN Ok(PyType("list"))
         ELSE LET items == json_schema_type.items
              IN  IF "type" \in DOMAIN items
                  THEN IF items.type \in DOMAIN primitive_map
                       THEN Ok(SequenceOf(primitive_map[items.type]))
                       ELSE Fail("KeyError")
                  ELSE IF "ref" \in DOMAIN items
                  THEN IF items.ref \in DOMAIN defs
                       THEN Ok(SequenceOf(defs[items.ref]))
                       ELSE Fail("ValueError: Cannot convert to Python type")
                  ELSE Ok(PyType("list"))
    ELSE IF "type" \in DOMAIN json_schema_type /\ json_schema_type.type = "object"
            /\ "ref" \notin DOMAIN json_schema_type
    THEN Ok(PyType("dict"))
    ELSE IF "ref" \in DOMAIN json_schema_type
    THEN DefsLookup(json_schema_type.ref, defs)
    ELSE Fail("ValueError: Cannot convert to Python type")

\* _property_to_model: one required field per property, named to_snake(key);
\* the first property that cannot be typed raises
property_to_model(schema, defs) ==
    LET props == schema.properties
        types == [k \in DOMAIN props |-> json_schema_type_to_python_type(props[k], defs)]
        bad   == {k \in DOMAIN props : ~types[k].ok}
    IN  IF bad # {} THEN types[CHOOSE k \in bad : TRUE]
        ELSE Ok(ModelType(IF "title" \in DOMAIN schema THEN schema.title ELSE "GeneratedModel",
                          [f \in {to_snake(k) : k \in DOMAIN props} |->
                              types[CHOOSE k \in DOMAIN props : to_snake(k) = f].v]))

\* unresolved_refs.pop(k)
RECURSIVE Pop(_, _)
Pop(items, k) ==
    IF items = <<>> THEN <<>>
    ELSE IF Head(items).k = k THEN Tail(items)
    ELSE <<Head(items)>> \o Pop(Tail(items), k)

\* for k in key_seq: one attempt per entry that was unresolved when the pass
\* began; a KeyError leaves the entry for a later pass, any other error leaves
\* the function
RECURSIVE ForKeySeq(_, _, _, _)
ForKeySeq(key_seq, i, unresolved, resolved) ==
    IF i > Len(key_seq)
    THEN [unresolved_refs |-> unresolved, resolved_refs |-> resolved, raised |-> "none"]
    ELSE LET r == property_to_model(key_seq[i].v, resolved)
         IN  IF r.ok
             THEN ForKeySeq(key_seq, i + 1, Pop(unresolved, key_seq[i].k),
                            (key_seq[i].k :> r.v) @@ resolved)
             ELSE IF r.e = "KeyError"
             THEN ForKeySeq(key_seq, i + 1, unresolved, resolved)
             ELSE [unresolved_refs |-> unresolved, resolved_refs |-> resolved,
                   raised |-> r.e]

\* the names of $defs entries: the first MaxDefs of these, in alphabetical order
AllNames == <<"A", "B", "C", "D">>
DefNames == {AllNames[i] : i \in 1..MaxDefs}

\* the field of every nested model, and the fields a top-level model may have:
\* a_b has the alias aB, a1 has the alias a1
NestedField == <<"a", "_", "b">>
FieldNames == {<<"a", "_", "b">>, <<"a", "1">>}

\* the annotations of a field: str, Sequence[str], a nested model (by name),
\* a Sequence of a nested model
Annotations ==
    {PyType("str"), SequenceOf(PyType("str"))}
    \cup {[py |-> "ref", name |-> n] : n \in DefNames}
    \cup {SequenceOf([py |-> "ref", name |-> n]) : n \in DefNames}

\* the type descriptor pydantic emits for an annotation
RECURSIVE Descriptor(_)
Descriptor(a) ==
    CASE a.py = "str" -> [type |-> "string"]
      [] a.py = "Sequence" -> [type |-> "array", items |-> Descriptor(a.of)]
      [] a.py = "ref" -> [ref |-> a.name]

\* the type descriptors of the documents
Descriptors == {Descriptor(a) : a \in Annotations}

\* the nested model an annotation names, or "none"
Target(a) ==
    IF a.py = "ref" THEN a.name
    ELSE IF a.py = "Sequence" /\ a.of.py = "ref" THEN a.of.name
    ELSE "none"

\* the classes whose annotations name only classes of done; the least fixed
\* point holds the classes that can be defined at all
RECURSIVE Definable(_, _)
Definable(classes, done) ==
    LET more == {n \in DOMAIN classes : Target(classes[n]) \in done \cup {"none"}}
    IN  IF more = done THEN done ELSE Definable(classes, more)

\* the classes a set of classes leads to
RECURSIVE Closure(_, _)
Closure(classes, set) ==
    LET more == set \cup ({Target(classes[n]) : n \in set \cap DOMAIN classes} \ {"none"})
    IN  IF more = set THEN set ELSE Closure(classes, more)

\* class Top(BaseModel): one field, over nested models with one field each;
\* every nested model is defined and is used by Top, directly or not
Models ==
    {g \in [field : FieldNames, annotation : Annotations,
            classes : UNION {[S -> Annotations] : S \in SUBSET DefNames}] :
        /\ Definable(g.classes, {}) = DOMAIN g.classes
        /\ Closure(g.classes, {Target(g.annotation)} \ {"none"}) = DOMAIN g.classes}

\* the class object of an annotation
RECURSIVE ClassOf(_, _)
ClassOf(classes, a) ==
    CASE a.py = "ref" ->
            ModelType(a.name, NestedField :> ClassOf(classes, classes[a.name]))
      [] a.py = "Sequence" -> SequenceOf(ClassOf(classes, a.of))
      [] OTHER -> a

\* the class Top of a model
TopClass(g) == ModelType("Top", g.field :> ClassOf(g.classes, g.annotation))

\* the names of S in alphabetical order
RECURSIVE Sorted(_, _)
Sorted(S, i) ==
    IF i > Len(AllNames) THEN <<>>
    ELSE (IF AllNames[i] \in S THEN <<AllNames[i]>> ELSE <<>>) \o Sorted(S, i + 1)

\* one $defs entry: a model with the title name and one property
Definition(name, descriptor) ==
    [title |-> name, properties |-> (to_camel(NestedField) :> descriptor)]

\* Top.model_json_schema(): properties under their aliases, the nested models
\* in $defs in alphabetical order
model_json_schema(g) ==
    LET names == Sorted(DOMAIN g.classes, 1)
    IN  [defs |-> [i \in DOMAIN names |->
                     [k |-> names[i],
                      v |-> Definition(names[i], Descriptor(g.classes[names[i]]))]],
         title |-> "Top",
         properties |-> (to_camel(g.field) :> Descriptor(g.annotation))]

\* the orders $defs can declare its entries in
Orders ==
    {o \in UNION {[1..n -> DefNames] : n \in 0..MaxDefs} :
        \A i, j \in DOMAIN o : i # j => o[i] # o[j]}

\* the documents a caller passes: any $defs over the names, in any order,
\* and one top-level property; and a document without properties
Documents ==
    {[defs |-> [i \in DOMAIN o |-> [k |-> o[i], v |-> Definition(o[i], d[o[i]])]],
      title |-> "Top",
      properties |-> (to_camel(f) :> top)] :
        o \in Orders, d \in [DefNames -> Descriptors], f \in FieldNames, top \in Descriptors}
    \cup {[defs |-> <<>>, title |-> "Top"]}

\* json_schema_to_model(document) is entered: unresolved_refs is the $defs
\* mapping of the caller's document itself
Enter(document, of) ==
    /\ json_schema' = document
    /\ schOf' = of
    /\ resolved_refs' = <<>>
    /\ schPasses' = <<>>
    /\ IF "properties" \in DOMAIN document
       THEN schPc' = "while" /\ schOut' = PyNone
       ELSE schPc' = "raised" /\ schOut' = Fail("ValueError: properties key is not found in json_schema")
    /\ UNCHANGED <<modelVars, stringVars, scalarVars, settingsVars, textVars>>

\* json_schema_to_model(document) on a document of any origin
JsonSchemaToModel(document) ==
    /\ Enter(document, PyNone)
    /\ schGiven' = document
    /\ schFirst' = PyNone

\* json_schema_to_model(Top.model_json_schema())
JsonSchemaOfModelToModel(g) ==
    /\ Enter(model_json_schema(g), g)
    /\ schGiven' = model_json_schema(g)
    /\ schFirst' = PyNone

\* json_schema_to_model(document) once more, on the document object the
\* first call was given and has returned or raised on
JsonSchemaToModelAgain ==
    /\ schPc \in {"returned", "raised"}
    /\ schFirst = PyNone
    /\ Enter(json_schema, schOf)
    /\ schFirst' = schOut
    /\ UNCHANGED schGiven

\* one turn of the loop without the comparison of the lengths
PassWithoutLengthCheck ==
    /\ schPc = "while"
    /\ json_schema.defs # <<>>
    /\ LET before_len == Len(json_schema.defs)
           r == ForKeySeq(json_schema.defs, 1, json_schema.defs, resolved_refs)
       IN  /\ json_schema' = [json_schema EXCEPT !.defs = r.unresolved_refs]
           /\ resolved_refs' = r.resolved_refs
           /\ IF r.raised # "none"
              THEN /\ schPc' = "raised"
                   /\ schOut' = Fail(r.raised)
                   /\ schPasses' = schPasses
              ELSE /\ schPasses' = Append(schPasses, before_len - Len(r.unresolved_refs))
                   /\ schPc' = "while"
                   /\ schOut' = schOut
    /\ UNCHANGED <<schGiven, schOf, schFirst>>
    /\ UNCHANGED <<modelVars, stringVars, scalarVars, settingsVars, textVars>>

\* one turn of while unresolved_refs: the for loop, then the comparison of
\* the lengths
Pass ==
    /\ schPc = "while"
    /\ json_schema.defs # <<>>
    /\ LET before_len == Len(json_schema.defs)
           r == ForKeySeq(json_schema.defs, 1, json_schema.defs, resolved_refs)
       IN  /\ json_schema' = [json_schema EXCEPT !.defs = r.unresolved_refs]
           /\ resolved_refs' = r.resolved_refs
           /\ IF r.raised # "none"
              THEN /\ schPc' = "raised"
                   /\ schOut' = Fail(r.raised)
                   /\ schPasses' = schPasses
              ELSE /\ schPasses' = Append(schPasses, before_len - Len(r.unresolved_refs))
                   /\ IF before_len = Len(r.unresolved_refs)
                      THEN /\ schPc' = "raised"
                           /\ schOut' = Fail("ValueError: Cannot resolve all references")
                      ELSE /\ schPc' = "while"
                           /\ schOut' = schOut
    /\ UNCHANGED <<schGiven, schOf, schFirst>>
    /\ UNCHANGED <<modelVars, stringVars, scalarVars, settingsVars, textVars>>

\* return _property_to_model(json_schema, resolved_refs)
Return ==
    /\ schPc = "while"
    /\ json_schema.defs = <<>>
    /\ schOut' = property_to_model(json_schema, resolved_refs)
    /\ schPc' = IF schOut'.ok THEN "returned" ELSE "raised"
    /\ UNCHANGED <<json_schema, resolved_refs, schGiven, schOf, schPasses, schFirst>>
    /\ UNCHANGED <<modelVars, stringVars, scalarVars, settingsVars, textVars>>

SchemaNext ==
    \/ /\ schPc = "idle"
       /\ \E document \in Documents : JsonSchemaToModel(document)
    \/ /\ schPc = "idle"
       /\ \E g \in Models : JsonSchemaOfModelToModel(g)
    \/ Pass
    \/ Return

SchemaSpec == Init /\ [][SchemaNext]_vars

\* type descriptors of every shape _json_schema_type_to_python_type tells
\* apart: the four primitives, arrays with and without items, objects with
\* and without $ref, and descriptors it has no type for
TopDescriptors ==
    Descriptors
    \cup {[type |-> t] : t \in {"integer", "number", "boolean", "array", "object", "null"}}
    \cup {[type |-> "array", items |-> [type |-> t]] :
             t \in {"integer", "number", "boolean", "object", "array"}}
    \cup {[type |-> "array", items |-> [title |-> "Item"]], [title |-> "Value"]}
    \cup {[type |-> "object", ref |-> n] : n \in DefNames}

\* documents with a top-level property of every shape, over $defs that
\* declare no entry or the one entry A
ShapeDocuments ==
    {[defs |-> defs, title |-> "Top", properties |-> (to_camel(f) :> top)] :
        defs \in {<<>>, <<[k |-> "A", v |-> Definition("A", [type |-> "string"])]>>},
        f \in FieldNames, top \in TopDescriptors}

ShapeNext ==
    \/ /\ schPc = "idle"
       /\ \E document \in ShapeDocuments : JsonSchemaToModel(document)
    \/ Pass
    \/ Return

ShapeSpec == Init /\ [][ShapeNext]_vars

\* a caller that calls a second time with the same document
SchemaAgainNext ==
    \/ SchemaNext
    \/ JsonSchemaToModelAgain

SchemaAgainSpec == Init /\ [][SchemaAgainNext]_vars

-----------------------------------------------------------------------------
(* Instances of the synthesized model types *)

PyList(items) == [py |-> "list", items |-> items]
PyDict(d) == [py |-> "dict", d |-> d]

\* Type(**data).model_dump() for a model type, and the validation and dump of
\* a value of any other annotation: a field is read under its alias, else
\* under its name, and dumped under its name
RECURSIVE ValidateDump(_, _)
ValidateDump(type, value) ==
    CASE type.py = "model" ->
            IF value.py # "dict" THEN Fail("model_type")
            ELSE LET rs == [f \in DOMAIN type.fields |->
                              IF to_camel(f) \in DOMAIN value.d
                              THEN ValidateDump(type.fields[f], value.d[to_camel(f)])
                              ELSE IF f \in DOMAIN value.d
                              THEN ValidateDump(type.fields[f], value.d[f])
                              ELSE Fail("missing")]
                 IN  IF \A f \in DOMAIN rs : rs[f].ok
                     THEN Ok(PyDict([f \in DOMAIN rs |-> rs[f].v]))
                     ELSE Fail("validation_error")
      [] type.py = "Sequence" ->
            IF value.py # "list" THEN Fail("list_type")
            ELSE LET rs == [i \in DOMAIN value.items |-> ValidateDump(type.of, value.items[i])]
                 IN  IF \A i \in DOMAIN rs : rs[i].ok
                     THEN Ok(PyList([i \in DOMAIN rs |-> rs[i].v]))
                     ELSE Fail("validation_error")
      [] type.py = "str" -> IF value.py = "str" THEN Ok(value) ELSE Fail("string_type")
      [] type.py = "int" -> IF value.py = "int" THEN Ok(value) ELSE Fail("int_type")
      [] OTHER -> Ok(value)

-----------------------------------------------------------------------------
(* Claims about json_schema_to_model *)

\* the call has returned or raised
SchemaDone == schPc \in {"returned", "raised"}

\* the $defs entry a type descriptor refers to, or "none"
RefOf(descriptor) ==
    IF "ref" \in DOMAIN descriptor THEN descriptor.ref
    ELSE IF "items" \in DOMAIN descriptor /\ "ref" \in DOMAIN descriptor.items
    THEN descriptor.items.ref
    ELSE "none"

\* the entries the properties of a schema refer to
RefsOf(schema) == {RefOf(schema.properties[k]) : k \in DOMAIN schema.properties} \ {"none"}

DeclaredNames(document) == {document.defs[i].k : i \in DOMAIN document.defs}

\* the entries that refer to entries of done only; the least fixed point
\* holds the entries free of cycles and of missing targets
RECURSIVE WellFounded(_, _)
WellFounded(document, done) ==
    LET more == {document.defs[i].k : i \in {j \in DOMAIN document.defs :
                                               RefsOf(document.defs[j].v) \subseteq done}}
    IN  IF more = done THEN done ELSE WellFounded(document, more)

\* no $defs entry refers to itself, lies on a cycle, or misses its target
AllResolvable(document) == WellFounded(document, {}) = DeclaredNames(document)

\* an entry refers to an entry that $defs declares later
DeclaredOutOfOrder(document) ==
    \E i, j \in DOMAIN document.defs :
        i < j /\ document.defs[j].k \in RefsOf(document.defs[i].v)

\* C18: on a document in which a $defs entry refers to an entry declared
\* later, and whose references can all be resolved, json_schema_to_model
\* succeeds: the referring entry is left to a later pass, and every $defs
\* entry has become a model type
C18_OutOfOrderReferenceResolves ==
    (/\ SchemaDone
     /\ "properties" \in DOMAIN schGiven
     /\ AllResolvable(schGiven)
     /\ RefsOf(schGiven) \subseteq DeclaredNames(schGiven)
     /\ DeclaredOutOfOrder(schGiven))
    => /\ schPc = "returned"
       /\ DOMAIN resolved_refs = DeclaredNames(schGiven)
       /\ Len(schPasses) >= 2

\* C19: on a document whose $defs hold an entry that refers to itself, a
\* cycle of references or a reference to a missing entry, json_schema_to_model
\* raises "Cannot resolve all references", and raises it in the first pass
\* that resolves no entry
C19_UnresolvableReferenceRaises ==
    (/\ SchemaDone
     /\ "properties" \in DOMAIN schGiven
     /\ ~AllResolvable(schGiven))
    => /\ schOut = Fail("ValueError: Cannot resolve all references")
       /\ schPasses # <<>>
       /\ \A i \in DOMAIN schPasses : schPasses[i] = 0 <=> i = Len(schPasses)

\* input data shaped after a model type, with every field under its alias
\* or every field under its name
RECURSIVE Sample(_, _)
Sample(type, how) ==
    CASE type.py = "model" ->
            PyDict([k \in {IF how = "alias" THEN to_camel(f) ELSE f : f \in DOMAIN type.fields} |->
                      Sample(type.fields[CHOOSE f \in DOMAIN type.fields :
                                            k = (IF how = "alias" THEN to_camel(f) ELSE f)],
                             how)])
      [] type.py = "Sequence" -> PyList(<<Sample(type.of, how)>>)
      [] OTHER -> PyStr(foo)

\* data for the model type Top: accepted under the aliases, accepted under
\* the names, and rejected
InputsFor(type) ==
    {Sample(type, "alias"), Sample(type, "name"), PyDict(<<>>),
     PyDict([k \in {to_camel(f) : f \in DOMAIN type.fields} |-> PyInt(42)])}

\* accepted and dumped to a mapping, or rejected
Outcome(r) == IF r.ok THEN r ELSE Fail("validation_error")

\* C20: for a model type whose fields are primitives, sequences of
\* primitives, nested models or sequences of nested models, the model made
\* by json_schema_to_model of its model_json_schema accepts the same data
\* and gives the same model_dump
C20_GeneratedModelEquivalent ==
    (SchemaDone /\ "field" \in DOMAIN schOf)
    => /\ schPc = "returned"
       /\ \A data \in InputsFor(TopClass(schOf)) :
             Outcome(ValidateDump(schOut.v, data)) = Outcome(ValidateDump(TopClass(schOf), data))


-----------------------------------------------------------------------------
(* The on_create hook of BaseModel *)

\* C21: a successful construction of an instance of a BaseModel subclass that
\* defines on_create invokes on_create exactly once (and a rejected
\* construction not at all)
C21_OnCreateOncePerConstruction ==
    last.op = "construct" =>
        last.hooks = IF err = "none" THEN <<"on_create">> ELSE <<>>

-----------------------------------------------------------------------------
(* BaseSettings.load *)

\* os.environ is patched (mocker.patch.dict in the tests)
PatchEnviron(env) ==
    /\ environ # env
    /\ environ' = env
    /\ UNCHANGED <<model_config, setOut, setLast>>
    /\ UNCHANGED <<modelVars, stringVars, scalarVars, schemaVars, textVars>>

\* cls.load(setting_file_path): cls() inside the scoped patch of json_file or
\* yaml_file for a path with a known suffix, a plain cls() otherwise
Load(setting_file_path) ==
    LET key == PatchedKey(setting_file_path)
        during == IF key = "none" THEN model_config
                  ELSE [model_config EXCEPT ![key] = setting_file_path]
        out == SettingsInit(settings_customise_sources(during, environ))
    IN  /\ setOut' = out
        /\ model_config' =
              IF key = "none" THEN model_config
              ELSE patch_config_value(model_config, key, setting_file_path, ~out.ok)
        /\ setLast' = [op |-> "load", path |-> setting_file_path,
                       config |-> model_config, environ |-> environ]
        /\ UNCHANGED environ
        /\ UNCHANGED <<modelVars, stringVars, scalarVars, schemaVars, textVars>>

SettingsNext ==
    \/ \E env \in Environs : PatchEnviron(env)
    \/ \E path \in LoadPaths : Load(path)

SettingsSpec == Init /\ [][SettingsNext]_vars

\* the value a key has in the first of the given mappings that holds it
RECURSIVE FirstHolding(_, _, _)
FirstHolding(k, mappings, i) ==
    IF i > Len(mappings) THEN PyNone
    ELSE IF k \in DOMAIN mappings[i] THEN mappings[i][k]
    ELSE FirstHolding(k, mappings, i + 1)

\* the file a load is given: the content of a .json, .yaml or .yml path
GivenFile(path) ==
    IF PatchedKey(path) = "none" THEN <<>> ELSE ConfigFileSource(path)

\* C22: load(path) with a .json/.yaml/.yml file gives the file's values
\* precedence over the environment's for the same keys, and load() without a
\* path takes the values from the environment: a returned instance holds, for
\* each key, the validated value of the given file, else of the environment
C22_FileOverEnvironment ==
    (setLast.op = "load" /\ setOut.ok) =>
        \A k \in SettingsFields :
            (k \in DOMAIN GivenFile(setLast.path) \cup DOMAIN setLast.environ) =>
                setOut.v[k] = SettingsField(k,
                    k :> FirstHolding(k, <<GivenFile(setLast.path), setLast.environ>>, 1)).v

\* C27: after load returns or raises, the model_config of the settings class
\* is what it was before the call
C27_PatchReleasedOnEveryExit ==
    setLast.op = "load" => model_config = setLast.config

\* C23: json_schema_to_model leaves the caller's document as it was passed,
\* whether it returns or raises, and a second call on the same document ends
\* as the first did
C23_DocumentUnchangedAndRepeatable ==
    SchemaDone =>
        /\ json_schema = schGiven
        /\ schFirst # PyNone => schOut = schFirst

\* the for loop of the running pass raised: the error is not the one of the
\* length comparison, and the entry that raised is still unresolved
RaisedInPass ==
    /\ schPc = "raised"
    /\ json_schema.defs # <<>>
    /\ schOut # Fail("ValueError: Cannot resolve all references")

\* the passes begun so far
PassesRun == Len(schPasses) + (IF RaisedInPass THEN 1 ELSE 0)

RECURSIVE Sum(_, _)
Sum(seq, i) == IF i > Len(seq) THEN 0 ELSE seq[i] + Sum(seq, i + 1)

\* C24: every pass over the unresolved $defs entries resolves at least one
\* entry or raises, so a call on a document with n entries runs at most n
\* passes, and the entries resolved by the finished passes and the unresolved
\* ones add up to n
C24_PassesBoundedByEntries ==
    ("properties" \in DOMAIN schGiven /\ schFirst = PyNone) =>
        /\ PassesRun <= Len(schGiven.defs)
        /\ \A i \in DOMAIN schPasses :
              \/ schPasses[i] > 0
              \/ i = Len(schPasses) /\ schPc = "raised"
        /\ Sum(schPasses, 1) + Len(json_schema.defs) <= Len(schGiven.defs)
        /\ ~RaisedInPass =>
              Sum(schPasses, 1) + Len(json_schema.defs) = Len(schGiven.defs)

\* a document with as many entries as the bound allows took as many passes
\* as it has entries, and the model was returned
C24_Witness ==
    /\ schPc = "returned"
    /\ Len(schGiven.defs) = MaxDefs
    /\ Len(schPasses) = MaxDefs

\* C25: on a document whose references are free of cycles and all name
\* declared entries, json_schema_to_model returns the model whatever the order
\* $defs declares its entries in, forward references in the items of an array
\* property included
C25_SuccessIndependentOfOrder ==
    (/\ SchemaDone
     /\ "properties" \in DOMAIN schGiven
     /\ AllResolvable(schGiven)
     /\ RefsOf(schGiven) \subseteq DeclaredNames(schGiven))
    => schPc = "returned"

\* the Python type of a primitive JSON schema type
ClaimedPrimitive(t) ==
    CASE t = "integer" -> PyType("int")
      [] t = "string" -> PyType("str")
      [] t = "number" -> PyType("float")
      [] t = "boolean" -> PyType("bool")

\* the type the mapping is to give a top-level type descriptor, the error it
\* is to raise, or PyNone for a $ref to an entry that is not declared
ClaimedType(d, defs) ==
    LET t == IF "type" \in DOMAIN d THEN d.type ELSE "none"
        CannotConvert == Fail("ValueError: Cannot convert to Python type")
    IN  CASE t \in {"integer", "string", "number", "boolean"} -> Ok(ClaimedPrimitive(t))
          [] t = "array" /\ "items" \notin DOMAIN d -> Ok(PyType("list"))
          [] t = "array" /\ "items" \in DOMAIN d ->
                LET it == IF "type" \in DOMAIN d.items THEN d.items.type ELSE "none"
                IN  CASE it \in {"integer", "string", "number", "boolean"} ->
                            Ok(SequenceOf(ClaimedPrimitive(it)))
                      [] it # "none" -> CannotConvert
                      [] "ref" \in DOMAIN d.items ->
                            IF d.items.ref \in DOMAIN defs
                            THEN Ok(SequenceOf(defs[d.items.ref])) ELSE CannotConvert
                      [] OTHER -> Ok(PyType("list"))
          [] "ref" \in DOMAIN d ->
                IF d.ref \in DOMAIN defs THEN Ok(defs[d.ref]) ELSE PyNone
          [] t = "object" -> Ok(PyType("dict"))
          [] OTHER -> CannotConvert

\* C26: json_schema_to_model gives the field of a top-level property the type
\* the mapping names for its descriptor (int/str/float/bool, a sequence, an
\* untyped list, an untyped mapping, the resolved model), and raises "Cannot
\* convert ... to Python type" for every other shape
C26_TypeDescriptorMapping ==
    (SchemaDone /\ "properties" \in DOMAIN schGiven /\ json_schema.defs = <<>>) =>
        \A k \in DOMAIN schGiven.properties :
            LET claimed == ClaimedType(schGiven.properties[k], resolved_refs)
            IN  /\ (claimed # PyNone /\ claimed.ok) =>
                      /\ schOut.ok
                      /\ schOut.v.fields[to_snake(k)] = claimed.v
                /\ (claimed # PyNone /\ ~claimed.ok) => schOut = claimed

-----------------------------------------------------------------------------
(* normalize_jptext on texts with parentheses, applied repeatedly *)

\* the longest text handed to normalize_jptext
MaxText == 4

\* a letter, the space, a newline, the parentheses and a full-width
\* parenthesis
JpAlphabet == {"a", " ", "nl", "(", ")", "fw_lparen"}

JpTexts == UNION {[1..n -> JpAlphabet] : n \in 0..MaxText}

\* y = normalize_jptext(x)
NormalizeJptext(x) ==
    /\ jpText = <<>>
    /\ jpRaw' = x
    /\ jpText' = <<normalize_jptext(x)>>
    /\ UNCHANGED <<modelVars, stringVars, scalarVars, schemaVars, settingsVars>>

\* y = normalize_jptext(y), up to two more times
NormalizeJptextAgain ==
    /\ jpText # <<>>
    /\ Len(jpText) <= 2
    /\ jpText' = Append(jpText, normalize_jptext(jpText[Len(jpText)]))
    /\ UNCHANGED jpRaw
    /\ UNCHANGED <<modelVars, stringVars, scalarVars, schemaVars, settingsVars>>

TextNext ==
    \/ /\ jpText = <<>>
       /\ \E x \in JpTexts : NormalizeJptext(x)
    \/ NormalizeJptextAgain

TextSpec == Init /\ [][TextNext]_vars

\* "(" does not follow whitespace or "(", or ")" is not followed by
\* whitespace or ")", between the characters i and i + 1 of s
Violating(s, i) ==
    /\ i < Len(s)
    /\ \/ s[i+1] = "(" /\ ~IsSpace(s[i]) /\ s[i] # "("
       \/ s[i] = ")" /\ ~IsSpace(s[i+1]) /\ s[i+1] # ")"

\* s with one space put in at each violating position
RECURSIVE SpacedOut(_, _)
SpacedOut(s, i) ==
    IF i > Len(s) THEN <<>>
    ELSE <<s[i]>> \o (IF Violating(s, i) THEN <<" ">> ELSE <<>>) \o SpacedOut(s, i + 1)

\* C28: in the output of normalize_jptext every "(" is at the start or
\* follows whitespace or "(", every ")" is at the end or is followed by
\* whitespace or ")", and the output is the NFKC-normalized and translated
\* input with exactly one space put in at each position that violated this
C28_ParenthesesSetOff ==
    jpText # <<>> =>
        LET y == jpText[1]
        IN  /\ \A i \in DOMAIN y : ~Violating(y, i)
            /\ y = SpacedOut(NfkcTranslate(jpRaw), 1)

\* a text with ")" right before "(" and a letter right before ")(": one
\* space was put between the parentheses, and nothing else was changed
C28_Witness ==
    /\ jpRaw = <<"(", "a", ")", "(">>
    /\ jpText # <<>>
    /\ jpText[1] = <<"(", "a", ")", " ", "(">>

\* C29: normalize_jptext applied a third time gives what the second
\* application gave
C29_FixedPointAfterSecondPass ==
    Len(jpText) = 3 => jpText[3] = jpText[2]

\* a text the parenthesis steps changed was normalized three times
C29_Witness ==
    /\ Len(jpText) = 3
    /\ jpText[1] # NfkcTranslate(jpRaw)
    /\ Len(jpText[1]) = Len(jpRaw) + 2

-----------------------------------------------------------------------------
(* The timestamps of an update-time-aware record over its whole history *)

\* C30: on an update-time-aware record constructed with default timestamps,
\* after any successful and rejected assignments to fields other than
\* updated_at, created_at <= updated_at, and updated_at is the instant of the
\* latest successful assignment (of the construction if there was none)
C30_UpdatedAtIsLatestAssignment ==
    stamp # PyNone =>
        /\ m.d[created_at].t <= m.d[updated_at].t
        /\ m.d[updated_at] = Ts(stamp.t)

\* a rejected assignment was made after a successful one, which was made
\* after the construction, each at another instant
C30_Witness ==
    /\ stamp # PyNone
    /\ last.op = "setattr"
    /\ err # "none"
    /\ born[created_at].t < stamp.t
    /\ stamp.t < last.t
====
